---- MODULE Spec2Model ----
(***************************************************************************)
(* Model of the block-sealing worker of go-quai (core/worker.go).          *)
(*                                                                         *)
(* The worker is modelled as groups of state, each with its own            *)
(* specifications over the shared variables:                               *)
(*   SpecCache  - the pending-block-body cache and its on-disk table       *)
(*                (AddPendingBlockBody, GetPendingBlockBody, newWorker,    *)
(*                StorePendingBlockBody and LoadPendingBlockBody key by    *)
(*                key, with the calls that run beside them).               *)
(*   SpecTx     - one GeneratePendingHeader call and the new-tx arm of     *)
(*                mainLoop, with the transaction-inclusion loop run turn   *)
(*                by turn (commitTransactions, commitTransaction,          *)
(*                fillTransactions).                                       *)
(*   SpecUncle  - the uncle pools and the uncle commit of prepareWork      *)
(*                (makeEnv, commitUncle, the commitUncles loops).          *)
(*   SpecCommitUncle - the same with commitUncle calls on the environment  *)
(*                prepareWork returned.                                    *)
(*   SpecWorker - the worker of a zone: concurrent GeneratePendingHeader   *)
(*                calls, mainLoop, the snapshot, start and stop.           *)
(*   SpecEtherbase - the GeneratePendingHeader calls with setEtherbase,    *)
(*                start and stop.                                          *)
(*   SpecSnapshot - the same calls and main loop with the readers of the   *)
(*                snapshot (pending, pendingBlockAndReceipts).             *)
(*   SpecClose  - the same calls and main loop with close() and            *)
(*                eventExitLoop, under weak fairness.                      *)
(*   SpecSweep  - the uncle pools with the cleaner arm of mainLoop.        *)
(*   SpecHeader - prepareWork with every timestamp and forceTime.          *)
(***************************************************************************)
EXTENDS Integers, Sequences, FiniteSets, TLC

(***************************************************************************)
(* Bounds of the model.                                                    *)
(***************************************************************************)
\* Capacity given to the LRU in the model.  The source sets 1024
\* (pendingBlockBodyLimit); the policy is the same for every capacity >= 1.
MaxCacheEntries == 2

(***************************************************************************)
(* Hashes.  Every hash function of the source is modelled as an injective  *)
(* encoding of its input, with the distinguished values of package types.  *)
(***************************************************************************)
EmptyRootHash == 0
EmptyUncleHash == 0

\* types.DeriveSha over a list of at most one element (transactions, etxs).
DeriveSha(list) == IF list = << >> THEN EmptyRootHash ELSE list[1]

\* types.CalcUncleHash over a list of at most two uncle headers: the hash
\* depends on the uncles and on their order.
CalcUncleHash(uncles) ==
    IF uncles = << >> THEN EmptyUncleHash
    ELSE IF Len(uncles) = 1 THEN uncles[1]
    ELSE 10 * uncles[1] + uncles[2]

\* types.RlpHash of the three roots: injective on tx and etx roots in 0..9.
RlpHash(triple) == triple[1] * 100 + triple[2] * 10 + triple[3]

\* types.EmptyBodyHash: the fingerprint of a body without uncles, txs and etxs.
EmptyBodyHash == RlpHash(<<EmptyUncleHash, EmptyRootHash, EmptyRootHash>>)

(***************************************************************************)
(* Bodies and headers handed to the cache.                                 *)
(***************************************************************************)
\* A nil *types.Body, and "no body" as the result of a lookup.
NoBody == [nil |-> TRUE]

Body(uncles, txs, etxs, subManifest) ==
    [uncles |-> uncles, txs |-> txs, etxs |-> etxs, subManifest |-> subManifest]

\* &types.Body{}
EmptyBody == Body(<< >>, << >>, << >>, << >>)

\* The bodies of the blocks the model assembles.
Bodies ==
    { EmptyBody,
      Body(<< >>, << >>, << >>, <<1>>),
      Body(<< >>, <<1>>, << >>, << >>),
      Body(<< >>, <<2>>, << >>, << >>) }

\* The three roots types.NewBlock writes into the header of a block with body b.
HeaderOf(b) ==
    [uncleHash |-> CalcUncleHash(b.uncles),
     txHash    |-> DeriveSha(b.txs),
     etxHash   |-> DeriveSha(b.etxs)]

Headers == { HeaderOf(b) : b \in Bodies }

\* worker.getPendingBlockBodyKey
getPendingBlockBodyKey(header) ==
    RlpHash(<<header.uncleHash, header.txHash, header.etxHash>>)

Keys == { getPendingBlockBodyKey(h) : h \in Headers }

\* pendingBlockBodyLimit, the maximum number of pending block bodies kept.
pendingBlockBodyLimit == MaxCacheEntries

\* A cache one entry too large, as lru.New would build from a wrong size.
phBodyCacheSize_OffByOne == pendingBlockBodyLimit + 1

\* The size newWorker hands to lru.New.
phBodyCacheSize == pendingBlockBodyLimit

VARIABLES
    pendingBlockBody,   \* the LRU: sequence of [key, value], oldest entry first
    dbKeys,             \* on-disk keys index (rawdb pbBodyKeys), a sequence of keys
    dbBodies,           \* on-disk body blobs: key -> body, NoBody when absent
    cacheOp,            \* the last cache operation, its arguments and its result
    added,              \* history: the <<key, body>> pairs AddPendingBlockBody was called with
    persist             \* the Store or Load call under way: its key list and its position

cacheVars == <<pendingBlockBody, dbKeys, dbBodies, cacheOp, added, persist>>

VARIABLES
    env,                \* the environment of the commitTransactions call under way
    txs,                \* the iterator (TransactionsByPriceAndNonce) of the running loop
    passes,             \* the iterators fillTransactions has still to run
    interrupt,          \* the interrupt word handed to the loop, NoInterrupt for a nil pointer
    pc,                 \* position of the commitTransactions call
    call,               \* record of the commitTransactions call in progress
    resubmitAdjustCh,   \* the buffered channel of interval adjustments
    running,            \* w.running
    snapshotBlock,      \* the block last written by updateSnapshot
    events              \* number of new-tx events mainLoop has received

txVars == <<env, txs, passes, interrupt, pc, call, resubmitAdjustCh,
            running, snapshotBlock, events>>

VARIABLES
    localUncles,        \* w.localUncles: the side blocks generated locally
    remoteUncles,       \* w.remoteUncles: the other side blocks
    work,               \* the environment prepareWork is building, then has returned
    blocks,             \* the entries the running commitUncles loop has still to visit
    upc,                \* position of prepareWork: "idle", "local", "remote"
    uncleErr            \* the error of the last commitUncle call

uncleVars == <<localUncles, remoteUncles, work, blocks, upc, uncleErr>>

VARIABLES
    envs,               \* the environments that have been w.current, in order
    current,            \* w.current: an index of envs, NoCurrent for nil
    tasks,              \* the GeneratePendingHeader calls, one record per caller
    calls,              \* number of GeneratePendingHeader calls made
    coinbase,           \* w.coinbase
    newTxs,             \* w.newTxs
    snapshotReceipts,   \* w.snapshotReceipts
    snapshotState,      \* w.snapshotState
    snapshotMu,         \* the holder of the write lock of w.snapshotMu
    stamps,             \* the updateSnapshot calls that wrote block, receipts, state
    main,               \* mainLoop: its position and the locals of the new-tx arm
    exitCh,             \* w.exitCh is closed
    exitLoop,           \* eventExitLoop: "running" or "returned"
    closing,            \* close(): "none", "wait" (in wg.Wait) or "returned"
    reader              \* what the last pending-block reader was handed

workerVars == <<envs, current, tasks, calls, coinbase, newTxs, snapshotReceipts,
                snapshotState, snapshotMu, stamps, main, exitCh, exitLoop,
                closing, reader>>

\* The variables of the worker but the environments.
workerRest == <<current, tasks, calls, coinbase, newTxs, snapshotReceipts,
                snapshotState, snapshotMu, stamps, main, exitCh, exitLoop,
                closing, reader>>

vars == <<pendingBlockBody, dbKeys, dbBodies, cacheOp, added, persist,
          env, txs, passes, interrupt, pc, call, resubmitAdjustCh,
          running, snapshotBlock, events,
          localUncles, remoteUncles, work, blocks, upc, uncleErr,
          envs, current, tasks, calls, coinbase, newTxs, snapshotReceipts,
          snapshotState, snapshotMu, stamps, main, exitCh, exitLoop,
          closing, reader>>

(***************************************************************************)
(* github.com/hashicorp/golang-lru, as used by the worker.                 *)
(***************************************************************************)
RECURSIVE IndexOf(_, _, _)
\* The position of key k in cache c at or after position i, 0 when absent.
IndexOf(c, k, i) ==
    IF i > Len(c) THEN 0
    ELSE IF c[i].key = k THEN i
    ELSE IndexOf(c, k, i + 1)

LruContains(c, k) == IndexOf(c, k, 1) # 0

\* c without the entry at position i.
RemoveAt(c, i) == SubSeq(c, 1, i - 1) \o SubSeq(c, i + 1, Len(c))

\* lru.Cache.Peek: the value under k, recency untouched.
LruPeek(c, k) == c[IndexOf(c, k, 1)].value

\* lru.Cache.Add: an existing key is overwritten and becomes the most recent
\* entry; a new key is appended and the oldest entry leaves when the size is
\* exceeded.
LruAdd(c, k, v, size) ==
    LET i == IndexOf(c, k, 1)
        e == [key |-> k, value |-> v]
    IN  IF i # 0 THEN Append(RemoveAt(c, i), e)
        ELSE IF Len(c) + 1 > size THEN Append(Tail(c), e)
        ELSE Append(c, e)

\* lru.Cache.Get: the looked-up entry becomes the most recent one.
LruGet(c, k) ==
    LET i == IndexOf(c, k, 1)
    IN  IF i = 0 THEN c ELSE Append(RemoveAt(c, i), c[i])

\* lru.Cache.ContainsOrAdd: nothing changes, recency included, when k is present.
LruContainsOrAdd(c, k, v, size) ==
    IF LruContains(c, k) THEN c ELSE LruAdd(c, k, v, size)

\* lru.Cache.Keys: oldest to newest.
LruKeys(c) == [i \in 1..Len(c) |-> c[i].key]

\* The cache as a mapping key -> body.
Mapping(c) == { <<c[i].key, c[i].value>> : i \in 1..Len(c) }

(***************************************************************************)
(* rawdb accessors of the pending-body table.                              *)
(***************************************************************************)
\* rawdb.ReadPbCacheBody: nil when no blob is stored under the key.
ReadPbCacheBody(db, key) == db[key]

\* rawdb.WritePbCacheBody
WritePbCacheBody(db, key, body) == [db EXCEPT ![key] = body]

\* rawdb.DeletePbCacheBody: removes the blob stored under the key.
DeletePbCacheBody(db, key) == [db EXCEPT ![key] = NoBody]

(***************************************************************************)
(* Cache operations of the worker.                                         *)
(***************************************************************************)
\* The record kept of a cache operation: its name, the key it was called
\* with, whether that key was cached when it was called, the keys it handed to
\* the LRU for insertion, the body it returned, and (for a Store, a restart
\* and the Load after it) the one-element list of the mapping that a Store
\* running alone right before the restart persisted.
CacheOp(name, key, body, hit, inserted, ret, persisted) ==
    [name |-> name, key |-> key, body |-> body, hit |-> hit,
     inserted |-> inserted, ret |-> ret, persisted |-> persisted]

NotPersisted == << >>

\* No StorePendingBlockBody or LoadPendingBlockBody call is under way.  For a
\* call under way: keys is the list it ranges over, i the position of the
\* next key, out the keys collected for the index, mixed the number of cache
\* calls of other goroutines that ran since it began, persisted what the
\* restart before a Load recorded.
Idle ==
    [op |-> "none", keys |-> << >>, i |-> 0, out |-> << >>, mixed |-> 0,
     persisted |-> NotPersisted]

\* Largest number of cache calls that run beside one Store or Load call.
MaxMixed == 1

\* persist after a cache call of another goroutine.
Mixed(p) == IF p.op = "none" THEN p ELSE [p EXCEPT !.mixed = @ + 1]

\* An insertion that overwrites the body of a cached fingerprint (lru Add in
\* place of ContainsOrAdd).
AddBody_Overwrite(c, key, body) == LruAdd(c, key, body, phBodyCacheSize)

\* The cache call of AddPendingBlockBody.
AddBody(c, key, body) == LruContainsOrAdd(c, key, body, phBodyCacheSize)

\* AddPendingBlockBody(header, body)
AddPendingBlockBody(header, body) ==
    LET key == getPendingBlockBodyKey(header)
        hit == LruContains(pendingBlockBody, key)
    IN  /\ pendingBlockBody' = AddBody(pendingBlockBody, key, body)
        /\ added' = added \cup {<<key, body>>}
        /\ cacheOp' = CacheOp("Add", key, body, hit,
                              IF hit THEN << >> ELSE <<key>>, NoBody, NotPersisted)
        /\ persist' = Mixed(persist)
        /\ UNCHANGED <<dbKeys, dbBodies, txVars, uncleVars, workerVars>>

\* GetPendingBlockBody(header)
GetPendingBlockBody(header) ==
    LET key == getPendingBlockBodyKey(header)
        hit == LruContains(pendingBlockBody, key)
    IN  /\ pendingBlockBody' = LruGet(pendingBlockBody, key)
        /\ cacheOp' = CacheOp("Get", key, NoBody, hit, << >>,
                              IF hit THEN LruPeek(pendingBlockBody, key) ELSE NoBody,
                              NotPersisted)
        /\ persist' = Mixed(persist)
        /\ UNCHANGED <<dbKeys, dbBodies, added, txVars, uncleVars, workerVars>>

\* StorePendingBlockBody(), the call pendingBlockBody.Keys(): the list the
\* loop ranges over is the keys of the cache at this moment.
StoreKeys ==
    /\ persist.op = "none"
    /\ persist' = [Idle EXCEPT !.op = "store", !.keys = LruKeys(pendingBlockBody),
                               !.i = 1]
    /\ UNCHANGED <<pendingBlockBody, dbKeys, dbBodies, cacheOp, added,
                   txVars, uncleVars, workerVars>>

\* StorePendingBlockBody(), one turn of the loop: Peek of the next key; an
\* entry that is still cached is collected for the index and, unless its key
\* is the empty-body fingerprint, written to the database.
StoreKey ==
    LET key == persist.keys[persist.i]
        exist == LruContains(pendingBlockBody, key)
    IN  /\ persist.op = "store"
        /\ persist.i <= Len(persist.keys)
        /\ persist' = [persist EXCEPT !.i = @ + 1,
                                      !.out = IF exist THEN Append(@, key) ELSE @]
        /\ dbBodies' = IF exist /\ key # EmptyBodyHash
                           THEN WritePbCacheBody(dbBodies, key,
                                                 LruPeek(pendingBlockBody, key))
                           ELSE dbBodies
        /\ UNCHANGED <<pendingBlockBody, dbKeys, cacheOp, added,
                       txVars, uncleVars, workerVars>>

\* StorePendingBlockBody(), rawdb.WritePbBodyKeys after the loop.
StoreWriteKeys ==
    /\ persist.op = "store"
    /\ persist.i > Len(persist.keys)
    /\ dbKeys' = persist.out
    /\ cacheOp' = CacheOp("Store", 0, NoBody, FALSE, << >>, NoBody,
                          IF persist.mixed > 0 THEN NotPersisted
                              ELSE <<Mapping(pendingBlockBody)>>)
    /\ persist' = Idle
    /\ UNCHANGED <<pendingBlockBody, dbBodies, added, txVars, uncleVars, workerVars>>

\* The value LoadPendingBlockBody inserts for a key of the index.
LoadedBody(db, key) ==
    IF key = EmptyBodyHash THEN EmptyBody ELSE ReadPbCacheBody(db, key)

\* The record of a finished LoadPendingBlockBody call.
Loaded(p) ==
    CacheOp("Load", 0, NoBody, FALSE, p.keys, NoBody,
            IF p.mixed > 0 THEN NotPersisted ELSE p.persisted)

\* LoadPendingBlockBody(), rawdb.ReadPbBodyKeys: the list the loop ranges
\* over.  With an empty index the call is over.
LoadKeys ==
    LET p == [Idle EXCEPT !.op = "load", !.keys = dbKeys, !.i = 1,
                          !.persisted = IF cacheOp.name = "Restart"
                                            THEN cacheOp.persisted ELSE NotPersisted]
    IN  /\ persist.op = "none"
        /\ IF dbKeys = << >>
           THEN /\ cacheOp' = Loaded(p)
                /\ UNCHANGED persist
           ELSE /\ persist' = p
                /\ UNCHANGED cacheOp
        /\ UNCHANGED <<pendingBlockBody, dbKeys, dbBodies, added,
                       txVars, uncleVars, workerVars>>

\* LoadPendingBlockBody(), one turn of the loop: the next key of the index is
\* added to the cache with the body read from the database (an empty body for
\* the empty-body fingerprint) and its blob is deleted.  After the last key
\* the call returns.
LoadKey ==
    LET key == persist.keys[persist.i]
        hit == LruContains(pendingBlockBody, key)
    IN  /\ persist.op = "load"
        /\ persist.i <= Len(persist.keys)
        /\ pendingBlockBody' = LruAdd(pendingBlockBody, key,
                                      LoadedBody(dbBodies, key), phBodyCacheSize)
        /\ dbBodies' = DeletePbCacheBody(dbBodies, key)
        /\ IF persist.i = Len(persist.keys)
           THEN /\ cacheOp' = [Loaded(persist) EXCEPT !.key = key, !.hit = hit]
                /\ persist' = Idle
           ELSE /\ cacheOp' = CacheOp("LoadKey", key, NoBody, hit, <<key>>,
                                      NoBody, NotPersisted)
                /\ persist' = [persist EXCEPT !.i = @ + 1]
        /\ UNCHANGED <<dbKeys, added, txVars, uncleVars, workerVars>>

\* A restart of the node: newWorker builds an empty cache of the same size; the
\* database outlives the process.
Restart ==
    /\ persist.op = "none"
    /\ pendingBlockBody' = << >>
    /\ cacheOp' = CacheOp("Restart", 0, NoBody, FALSE, << >>, NoBody,
                          IF cacheOp.name = "Store"
                              THEN cacheOp.persisted ELSE NotPersisted)
    /\ UNCHANGED <<dbKeys, dbBodies, added, persist, txVars, uncleVars, workerVars>>

CacheInit ==
    /\ pendingBlockBody = << >>
    /\ dbKeys = << >>
    /\ dbBodies = [k \in Keys |-> NoBody]
    /\ cacheOp = CacheOp("New", 0, NoBody, FALSE, << >>, NoBody, NotPersisted)
    /\ added = {}
    /\ persist = Idle

(***************************************************************************)
(* The sealing environment and the transaction-inclusion loop.             *)
(***************************************************************************)
\* params.TxGas
TxGas == 21000

\* resubmitAdjustChanSize
resubmitAdjustChanSize == 10

commitInterruptNone == 0
commitInterruptNewHead == 1
commitInterruptResubmit == 2

\* A nil *int32 handed to commitTransactions.
NoInterrupt == -1

\* A nil *GasPool.
NoGasPool == -1

\* types.ReceiptStatusFailed, types.ReceiptStatusSuccessful
ReceiptStatusFailed == 0
ReceiptStatusSuccessful == 1

\* Number of new-tx events the model serves on one environment.
MaxEvents == 1

Senders == {"A", "B"}

Tx(from, nonce, gas, used, price, kind, status, etxs) ==
    [from |-> from, nonce |-> nonce, gas |-> gas, used |-> used, price |-> price,
     kind |-> kind, status |-> status, etxs |-> etxs]

\* The transactions of the model.  gas is the transaction's gas limit, used
\* the gas its execution consumes, kind what execution runs into: "ok",
\* "unsupported" (a type the chain configuration does not support) or
\* "intrinsic" (a failure after the gas was bought), status the status of
\* its receipt, etxs the cross-context transactions its receipt carries.
TxsOf(s) ==
    IF s = "A"
    THEN { Tx("A", 0, 21000, 21000, 5, "ok", ReceiptStatusSuccessful, <<7>>),
           Tx("A", 1, 21000, 21000, 3, "intrinsic", ReceiptStatusSuccessful, << >>),
           Tx("A", 2, 21000, 21000, 2, "ok", ReceiptStatusSuccessful, << >>) }
    ELSE { Tx("B", 0, 21000, 21000, 4, "ok", ReceiptStatusFailed, <<8>>),
           Tx("B", 1, 30000, 24000, 6, "ok", ReceiptStatusSuccessful, << >>),
           Tx("B", 2, 21000, 21000, 1, "unsupported", ReceiptStatusSuccessful, << >>) }

\* The lists of at most two transactions of sender s, in any order: what a
\* new-tx event can carry for s.
Queues(s) ==
    {<< >>} \cup { <<t>> : t \in TxsOf(s) }
            \cup { <<p[1], p[2]>> : p \in { q \in TxsOf(s) \X TxsOf(s) : q[1] # q[2] } }

\* The lists the pool returns for s: sorted by nonce.
SortedQueues(s) ==
    { q \in Queues(s) : Len(q) = 2 => q[1].nonce < q[2].nonce }

\* What a new-tx event can carry: a queue for every sender.
EventInputs ==
    { q \in [Senders -> UNION { Queues(s) : s \in Senders }] :
          \A s \in Senders : q[s] \in Queues(s) }

\* What TxPoolPending can return: a nonce-sorted queue for every sender.
PendingInputs ==
    { q \in EventInputs : \A s \in Senders : q[s] \in SortedQueues(s) }

\* The account nonces of the parent state.
ParentNonce == [s \in Senders |-> 0]

\* The gas limits adjustGasLimit gives the header in the model.
GasLimits == {66000}

\* The state database: account nonces and the gas each account has paid for.
StateAt == [nonce |-> ParentNonce, paid |-> [s \in Senders |-> 0]]

(***************************************************************************)
(* The header chain and the side blocks.  The canonical block of height n  *)
(* has hash 10 * n; a side block of height n has hash 10 * n + 1 and the   *)
(* canonical block of height n - 1 as its parent.                          *)
(***************************************************************************)
\* Height of the head of the canonical chain.
ChainHeight == 9

\* Number of ancestors makeEnv walks back from the parent.
AncestorWindow == 7

\* staleThreshold, the maximum depth of an acceptable stale block.
staleThreshold == 7

\* Largest number of side blocks in one pool.
MaxPool == 3

BlockHash(n) == 10 * n

\* The header of a side block of height n.
SideBlock(n) == [hash |-> BlockHash(n) + 1, parentHash |-> BlockHash(n - 1), number |-> n]

\* The side blocks the node can see.
SideBlocks == { SideBlock(n) : n \in {2, 5, 6, 7, 8, 9} }

\* Block.Uncles() of the canonical block of height n: the block of height 7
\* has included the side block of height 6.
Uncles(n) == IF n = 7 THEN {SideBlock(6)} ELSE {}

\* hc.GetBlocksFromHash(hash, n): the heights of the block with this hash and
\* of its ancestors, at most n blocks.
GetBlocksFromHash(hash, n) ==
    { k \in 0..ChainHeight : BlockHash(k) <= hash /\ BlockHash(k) > hash - BlockHash(n) }

\* The blocks GeneratePendingHeader is called with.
Parents == {ChainHeight - 1, ChainHeight}

\* An empty uncle map.
NoUncles == [h \in {} |-> h]

\* The state root of a header that was not finalized.
NoRoot == [nil |-> TRUE]

\* common.ZeroAddr and the address of the miner.
ZeroAddr == "0x0"
Etherbase == "0xe"

\* The coinbase check without its test.
NoEtherbase_Never(addr) == FALSE

\* w.coinbase.Equal(common.ZeroAddr)
NoEtherbase(addr) == addr = ZeroAddr

\* The seconds between two canonical blocks.
BlockPeriod == 5

\* Block.Time() of the canonical block of height n.
BlockTime(n) == n * BlockPeriod

\* time.Now().Unix() of the calls: the clock of the node stands at the time
\* of the chain head, so a call on the head takes the branch that moves the
\* timestamp and a call on the block before it does not.
Now == BlockTime(ChainHeight)

\* The timestamps a caller of prepareWork asks for: around the times of the
\* two parents.
Timestamps == (BlockTime(ChainHeight - 1) - 1)..(BlockTime(ChainHeight) + 2)

\* prepareWork, the timestamp sanity check: the error of the call.
TimestampError(parent, timestamp, forceTime) ==
    IF BlockTime(parent) >= timestamp /\ forceTime
        THEN "invalid timestamp" ELSE "none"

\* The timestamp of the header as the caller asked for it.
HeaderTime_Asked(parent, timestamp) == timestamp

\* prepareWork, the timestamp of the header: the one asked for, moved to
\* parent.Time() + 1 when it is not after the parent.
HeaderTime(parent, timestamp) ==
    IF BlockTime(parent) >= timestamp THEN BlockTime(parent) + 1 ELSE timestamp

\* makeEnv followed by adjustGasLimit: an environment on the state of the
\* parent (the canonical block of height parent), with the ancestors and the
\* family of the parent, for the header prepareWork built (parent hash,
\* number, time) and the coinbase prepareWork hands over.  The prefetcher of
\* its state is started: discarded tells whether discard() has stopped it.
makeEnv(parent, gasLimit, time, addr) ==
    LET recent == GetBlocksFromHash(BlockHash(parent), AncestorWindow)
    IN  [state |-> StateAt, tcount |-> 0, gasPool |-> NoGasPool,
         gasUsed |-> 0, gasLimit |-> gasLimit,
         parentHash |-> BlockHash(parent), number |-> parent + 1,
         time |-> time, coinbase |-> addr,
         root |-> NoRoot, manifestHash |-> EmptyRootHash,
         etxRollupHash |-> EmptyRootHash,
         ancestors |-> { BlockHash(k) : k \in recent },
         family |-> { BlockHash(k) : k \in recent }
                        \cup { u.hash : u \in UNION { Uncles(k) : k \in recent } },
         uncles |-> NoUncles, subManifest |-> << >>,
         txs |-> << >>, etxs |-> << >>, receipts |-> << >>,
         discarded |-> FALSE]

\* No environment (w.current = nil).
NoEnv == makeEnv(0, 0, 0, ZeroAddr)

\* environment.discard(): the prefetcher of the state is stopped.
discard(e) == [e EXCEPT !.discarded = TRUE]

(***************************************************************************)
(* core.ApplyTransaction: the result of executing tx on state with gas     *)
(* pool gp and block gas counter usedGas.                                  *)
(***************************************************************************)
ApplyResult(err, receipt, state, gp, usedGas) ==
    [err |-> err, receipt |-> receipt, state |-> state, gp |-> gp, usedGas |-> usedGas]

NoReceipt == [gasUsed |-> 0, cumulativeGasUsed |-> 0, status |-> ReceiptStatusFailed,
              etxs |-> << >>, nil |-> TRUE]

ApplyTransaction(state, gp, usedGas, tx) ==
    IF tx.kind = "unsupported"
        THEN ApplyResult("ErrTxTypeNotSupported", NoReceipt, state, gp, usedGas)
    ELSE IF tx.nonce < state.nonce[tx.from]
        THEN ApplyResult("ErrNonceTooLow", NoReceipt, state, gp, usedGas)
    ELSE IF tx.nonce > state.nonce[tx.from]
        THEN ApplyResult("ErrNonceTooHigh", NoReceipt, state, gp, usedGas)
    ELSE IF gp < tx.gas
        THEN ApplyResult("ErrGasLimitReached", NoReceipt, state, gp, usedGas)
    ELSE IF tx.kind = "intrinsic"
        \* the gas was bought: the pool and the sender's balance are charged
        THEN ApplyResult("ErrIntrinsicGas", NoReceipt,
                         [state EXCEPT !.paid[tx.from] = @ + tx.gas],
                         gp - tx.gas, usedGas)
    ELSE ApplyResult("nil",
                     [gasUsed |-> tx.used, cumulativeGasUsed |-> usedGas + tx.used,
                      status |-> tx.status, etxs |-> tx.etxs, nil |-> FALSE],
                     [state EXCEPT !.nonce[tx.from] = @ + 1,
                                   !.paid[tx.from] = @ + tx.used],
                     gp - tx.used, usedGas + tx.used)

(***************************************************************************)
(* types.TransactionsByPriceAndNonce: per-sender queues, the head of every *)
(* queue competing by price.                                               *)
(***************************************************************************)
NoTx == [nil |-> TRUE]

NewTransactionsByPriceAndNonce(queues) == queues

NoTxs == [s \in Senders |-> << >>]

Heads(it) == { s \in Senders : it[s] # << >> }

\* The sender whose head transaction pays the highest price.
Best(it) == CHOOSE s \in Heads(it) : \A o \in Heads(it) : it[o][1].price <= it[s][1].price

Peek(it) == IF Heads(it) = {} THEN NoTx ELSE it[Best(it)][1]

\* Shift: the best sender's next transaction replaces its head.
Shift(it) == [it EXCEPT ![Best(it)] = Tail(@)]

\* Pop: the best sender leaves the iterator.
Pop(it) == [it EXCEPT ![Best(it)] = << >>]

(***************************************************************************)
(* commitTransaction and the body of the loop of commitTransactions.       *)
(***************************************************************************)
\* commitTransaction that keeps a failed transaction in the block.
commitTransaction_KeepFailed(e, tx) ==
    LET r == ApplyTransaction(e.state, e.gasPool, e.gasUsed, tx)
    IN  [err |-> r.err,
         env |-> [e EXCEPT !.state = r.state, !.gasPool = r.gp,
                           !.txs = Append(@, tx),
                           !.receipts = Append(@, r.receipt)]]

\* commitTransaction that does not write the gas counter back to the header.
commitTransaction_NoGasUsed(e, tx) ==
    LET r == ApplyTransaction(e.state, e.gasPool, e.gasUsed, tx)
    IN  IF r.err # "nil"
        THEN [err |-> r.err, env |-> [e EXCEPT !.gasPool = r.gp]]
        ELSE [err |-> "nil",
              env |-> [e EXCEPT !.state = r.state, !.gasPool = r.gp,
                                !.txs = Append(@, tx),
                                !.receipts = Append(@, r.receipt),
                                !.etxs = IF r.receipt.status = ReceiptStatusSuccessful
                                             THEN @ \o r.receipt.etxs ELSE @]]

\* commitTransaction that takes the etxs of every receipt.
commitTransaction_AllEtxs(e, tx) ==
    LET snap == e.state
        r == ApplyTransaction(e.state, e.gasPool, e.gasUsed, tx)
    IN  IF r.err # "nil"
        THEN [err |-> r.err, env |-> [e EXCEPT !.state = snap, !.gasPool = r.gp]]
        ELSE [err |-> "nil",
              env |-> [e EXCEPT !.state = r.state, !.gasPool = r.gp,
                                !.gasUsed = r.usedGas,
                                !.txs = Append(@, tx),
                                !.receipts = Append(@, r.receipt),
                                !.etxs = @ \o r.receipt.etxs]]

\* commitTransaction(env, tx): <<error, environment after the call>>.  The
\* gas pool is shared with ApplyTransaction and keeps what it did to it; the
\* state goes back to the journal snapshot on an error.
commitTransaction(e, tx) ==
    LET snap == e.state
        r == ApplyTransaction(e.state, e.gasPool, e.gasUsed, tx)
    IN  IF r.err # "nil"
        THEN [err |-> r.err, env |-> [e EXCEPT !.state = snap, !.gasPool = r.gp]]
        ELSE [err |-> "nil",
              env |-> [e EXCEPT !.state = r.state, !.gasPool = r.gp,
                                !.gasUsed = r.usedGas,
                                !.txs = Append(@, tx),
                                !.receipts = Append(@, r.receipt),
                                !.etxs = IF r.receipt.status = ReceiptStatusSuccessful
                                             THEN @ \o r.receipt.etxs ELSE @]]

\* The errors of commitTransaction on which the sender is popped.
PopErrors == {"ErrGasLimitReached", "ErrNonceTooHigh", "ErrTxTypeNotSupported"}

\* The dispatch that shifts on every error.
Dispatch_AlwaysShift(it, err) == Shift(it)

\* The iterator after the dispatch on the error of commitTransaction.
Dispatch(it, err) ==
    IF err \in PopErrors
        THEN Pop(it)
        ELSE Shift(it)

\* The environment after the dispatch: a committed transaction is counted.
Counted(e, err) == IF err = "nil" THEN [e EXCEPT !.tcount = @ + 1] ELSE e

\* Every gas amount of the model is a multiple of GasUnit; fractions of gas
\* amounts are kept in this unit.
GasUnit == TxGas \div 21

\* float64(a) / float64(b) as the fraction <<numerator, denominator>>.
Fraction(a, b) == <<a \div GasUnit, b \div GasUnit>>

\* The ratio of the interval adjustment: (gasLimit - gas) / gasLimit, and 0.1
\* when that is less than 0.1.
ResubmitRatio(gasLimit, gas) ==
    LET ratio == Fraction(gasLimit - gas, gasLimit)
    IN  IF 10 * ratio[1] < ratio[2] THEN <<1, 10>> ELSE ratio

\* The value commitTransactions returns on an interrupt.
InterruptedReturn(word) == word = commitInterruptNewHead

(***************************************************************************)
(* The record of a commitTransactions call: who called, the interrupt word *)
(* seen by the poll that ended the loop, the lengths of the lists and the  *)
(* gas pool at that poll, the number of adjustments sent, the returned     *)
(* value, the place of the environment among the environments of the       *)
(* worker when the call runs on w.current (target),                        *)
(* and tcount and the length of the channel when the call began;           *)
(* the iterator the call was handed, the locals of the fill it belongs to, *)
(* and the iterations that executed a transaction: the transaction, the    *)
(* error of commitTransaction, the gas pool when the iteration began and   *)
(* the transactions of the sender that stood behind it in the iterator.    *)
(***************************************************************************)
Lengths(e) == <<Len(e.txs), Len(e.receipts), Len(e.etxs), e.tcount>>

\* w.current = nil
NoCurrent == 0

NewCall(caller, e) ==
    [caller |-> caller, polled |-> commitInterruptNone, atPoll |-> << >>,
     sent |-> 0, ret |-> FALSE, tcount |-> e.tcount, gasAtPoll |-> 0,
     queued |-> Len(resubmitAdjustCh), input |-> NoTxs, locals |-> {},
     ran |-> << >>, target |-> NoCurrent]

\* What the call record keeps of an iteration that executes a transaction.
Ran(e, it, err) ==
    [tx |-> Peek(it), err |-> err, gas |-> e.gasPool, rest |-> Tail(it[Best(it)])]

\* The entry of commitTransactions with a gas pool made anew by every call.
WithGasPool_Refilled(e) == [e EXCEPT !.gasPool = e.gasLimit]

\* The entry of commitTransactions: the gas pool is created on first use.
WithGasPool(e) ==
    IF e.gasPool = NoGasPool THEN [e EXCEPT !.gasPool = e.gasLimit] ELSE e

\* env.unclelist(): the uncles of the environment as a list, in the order
\* in which the range over the map yields them, which is any order.
unclelist(e) ==
    LET headers == { e.uncles[h] : h \in DOMAIN e.uncles }
        n == Cardinality(headers)
    IN  { list \in [1..n -> headers] :
            \A i, j \in 1..n : i # j => list[i] # list[j] }

\* types.NewBlock over the environment's header and lists, with the uncles in
\* the order of the list uncles.
NewBlock(e, uncles) ==
    [gasUsed |-> e.gasUsed, gasLimit |-> e.gasLimit,
     parentHash |-> e.parentHash, number |-> e.number,
     root |-> e.root, manifestHash |-> e.manifestHash,
     etxRollupHash |-> e.etxRollupHash,
     txs |-> e.txs,
     uncles |-> uncles,
     subManifest |-> e.subManifest,
     receipts |-> e.receipts, etxs |-> e.etxs]

\* The queues of the accounts in accounts, the others empty.
Only(queues, accounts) ==
    [s \in Senders |-> IF s \in accounts THEN queues[s] ELSE << >>]

\* fillTransactions that runs the remotes first.
FillPasses_RemotesFirst(pending, locals, available) ==
    LET localTxs  == Only(pending, locals)
        remoteTxs == Only(pending, Senders \ locals)
    IN  IF ~available THEN << >>
        ELSE (IF remoteTxs # NoTxs
                  THEN <<NewTransactionsByPriceAndNonce(remoteTxs)>> ELSE << >>)
             \o (IF localTxs # NoTxs
                  THEN <<NewTransactionsByPriceAndNonce(localTxs)>> ELSE << >>)

\* fillTransactions: the iterators it runs, locals first; none when the etx
\* set of the parent is missing or the pool fails.
FillPasses(pending, locals, available) ==
    LET localTxs  == Only(pending, locals)
        remoteTxs == Only(pending, Senders \ locals)
    IN  IF ~available THEN << >>
        ELSE (IF localTxs # NoTxs
                  THEN <<NewTransactionsByPriceAndNonce(localTxs)>> ELSE << >>)
             \o (IF remoteTxs # NoTxs
                  THEN <<NewTransactionsByPriceAndNonce(remoteTxs)>> ELSE << >>)

\* The environments of the worker after the running call has left its
\* environment as e: a call on w.current writes to the environment the
\* worker holds, a call of fillTransactions to the work of its caller.
Through(e) ==
    IF call.target = NoCurrent THEN envs
    ELSE [envs EXCEPT ![call.target] =
              [e EXCEPT !.discarded = envs[call.target].discarded]]

\* One turn of the loop of commitTransactions: the poll of the interrupt word
\* and, when it reads None, the gas check, Peek, commitTransaction and the
\* dispatch on its error.
LoopIteration ==
    /\ pc = "poll"
    /\ IF interrupt # NoInterrupt /\ interrupt # commitInterruptNone
       THEN /\ pc' = "interrupted"
            /\ call' = [call EXCEPT !.polled = interrupt, !.atPoll = Lengths(env),
                                    !.gasAtPoll = env.gasPool]
            /\ UNCHANGED <<env, txs, envs>>
       ELSE IF env.gasPool < TxGas \/ Peek(txs) = NoTx
       THEN /\ pc' = "done"
            /\ call' = [call EXCEPT !.ret = FALSE]
            /\ UNCHANGED <<env, txs, envs>>
       ELSE LET r == commitTransaction(env, Peek(txs))
            IN  /\ env' = Counted(r.env, r.err)
                /\ envs' = Through(Counted(r.env, r.err))
                /\ txs' = Dispatch(txs, r.err)
                /\ call' = [call EXCEPT !.ran = Append(@, Ran(env, txs, r.err))]
                /\ UNCHANGED pc
    /\ UNCHANGED <<passes, interrupt, resubmitAdjustCh, running,
                   snapshotBlock, events, cacheVars, uncleVars, workerRest>>

\* After a poll that read a value other than None: the second load of the
\* word decides whether an interval adjustment is sent.  GeneratePendingHeader
\* hands the loop a word of its own that holds None and mainLoop hands it
\* nil, and nothing stores to either: no call of the worker gets here.
CheckResubmit ==
    /\ pc = "interrupted"
    /\ pc' = IF interrupt = commitInterruptResubmit THEN "send" ELSE "return"
    /\ UNCHANGED <<env, txs, passes, interrupt, call, resubmitAdjustCh,
                   running, snapshotBlock, events, cacheVars, uncleVars, workerVars>>

\* The send on resubmitAdjustCh; it waits while the buffer is full.
SendAdjust ==
    /\ pc = "send"
    /\ Len(resubmitAdjustCh) < resubmitAdjustChanSize
    /\ resubmitAdjustCh' =
           Append(resubmitAdjustCh,
                  [ratio |-> ResubmitRatio(env.gasLimit, env.gasPool), inc |-> TRUE])
    /\ call' = [call EXCEPT !.sent = @ + 1]
    /\ pc' = "return"
    /\ UNCHANGED <<env, txs, passes, interrupt, running, snapshotBlock,
                   events, cacheVars, uncleVars, workerVars>>

\* The return on an interrupt: the third load of the word.
ReturnInterrupted ==
    /\ pc = "return"
    /\ call' = [call EXCEPT !.ret = InterruptedReturn(interrupt)]
    /\ pc' = "done"
    /\ UNCHANGED <<env, txs, passes, interrupt, resubmitAdjustCh, running,
                   snapshotBlock, events, cacheVars, uncleVars, workerVars>>

\* start() and stop()
SetRunning(on) ==
    /\ running # on
    /\ running' = on
    /\ UNCHANGED <<env, txs, passes, interrupt, pc, call, resubmitAdjustCh,
                   snapshotBlock, events, cacheVars, uncleVars, workerVars>>

TxInit ==
    /\ env = NoEnv
    /\ txs = NoTxs
    /\ passes = << >>
    /\ interrupt = NoInterrupt
    /\ pc = "idle"
    /\ resubmitAdjustCh = << >>
    /\ call = NewCall("none", NoEnv)
    /\ running = FALSE
    /\ snapshotBlock = NewBlock(NoEnv, << >>)
    /\ events = 0

(***************************************************************************)
(* The uncle pools and the uncle commit of prepareWork.                    *)
(***************************************************************************)
\* commitUncle(env, uncle): <<error, environment after the call>>.
commitUncle(e, uncle) ==
    LET hash == uncle.hash
    IN  IF hash \in DOMAIN e.uncles
            THEN [err |-> "uncle not unique", env |-> e]
        ELSE IF e.parentHash = uncle.parentHash
            THEN [err |-> "uncle is sibling", env |-> e]
        ELSE IF uncle.parentHash \notin e.ancestors
            THEN [err |-> "uncle's parent unknown", env |-> e]
        ELSE IF hash \in e.family
            THEN [err |-> "uncle already included", env |-> e]
        ELSE [err |-> "nil",
              env |-> [e EXCEPT !.uncles =
                          [h \in DOMAIN e.uncles \cup {hash} |->
                              IF h = hash THEN uncle ELSE e.uncles[h]]]]

\* The test at the top of the commitUncles loop: the environment has its
\* two uncles.
UnclesFull(e) == Cardinality(DOMAIN e.uncles) = 2

\* A side block reaches the worker and enters the local or the remote pool.
\* The pools are written under the write lock of uncleMu, which prepareWork
\* excludes while it reads them.
AddSideBlock(uncle, local) ==
    /\ upc = "idle"
    /\ IF local
       THEN /\ Cardinality(localUncles) < MaxPool
            /\ localUncles' = localUncles \cup {uncle}
            /\ UNCHANGED remoteUncles
       ELSE /\ Cardinality(remoteUncles) < MaxPool
            /\ remoteUncles' = remoteUncles \cup {uncle}
            /\ UNCHANGED localUncles
    /\ UNCHANGED <<work, blocks, upc, uncleErr, cacheVars, txVars, workerVars>>

\* prepareWork up to the first commitUncles loop: makeEnv builds the
\* environment on the parent and the loop over the local pool starts.
prepareWork(timestamp, forceTime, block, gasLimit) ==
    /\ upc = "idle"
    /\ IF TimestampError(block, timestamp, forceTime) # "none"
       THEN /\ uncleErr' = TimestampError(block, timestamp, forceTime)
            /\ UNCHANGED <<work, blocks, upc>>
       ELSE IF running /\ NoEtherbase(coinbase)
       THEN /\ uncleErr' = "refusing to mine without etherbase"
            /\ UNCHANGED <<work, blocks, upc>>
       ELSE /\ work' = makeEnv(block, gasLimit, HeaderTime(block, timestamp),
                               coinbase)
            /\ blocks' = localUncles
            /\ upc' = "local"
            /\ uncleErr' = "none"
    /\ UNCHANGED <<localUncles, remoteUncles, cacheVars, txVars, workerVars>>

\* One turn of a commitUncles loop: the loop stops when the environment has
\* two uncles or the pool is exhausted, otherwise the next entry of the pool,
\* in the order the map yields, goes to commitUncle.  After the local pool
\* comes the remote pool, after the remote pool prepareWork returns.
CommitUnclesStep ==
    /\ upc \in {"local", "remote"}
    /\ IF blocks = {} \/ UnclesFull(work)
       THEN /\ upc' = IF upc = "local" THEN "remote" ELSE "idle"
            /\ blocks' = IF upc = "local" THEN remoteUncles ELSE {}
            /\ UNCHANGED <<work, uncleErr>>
       ELSE \E uncle \in blocks :
               LET r == commitUncle(work, uncle)
               IN  /\ work' = r.env
                   /\ uncleErr' = r.err
                   /\ blocks' = blocks \ {uncle}
                   /\ UNCHANGED upc
    /\ UNCHANGED <<localUncles, remoteUncles, cacheVars, txVars, workerVars>>

\* w.commitUncle(env, uncle) called on the environment prepareWork returned,
\* outside the commitUncles loop and its test of the size.  worker.go makes
\* no such call; the action stands for any further caller of the method.
commitUncleCall(uncle) ==
    /\ upc = "idle"
    /\ work # NoEnv
    /\ work' = commitUncle(work, uncle).env
    /\ uncleErr' = commitUncle(work, uncle).err
    /\ UNCHANGED <<localUncles, remoteUncles, blocks, upc, cacheVars, txVars,
                   workerVars>>

UncleInit ==
    /\ localUncles = {}
    /\ remoteUncles = {}
    /\ work = NoEnv
    /\ blocks = {}
    /\ upc = "idle"
    /\ uncleErr = "none"

(***************************************************************************)
(* The worker of a zone: GeneratePendingHeader calls, the main loop, the   *)
(* snapshot and its readers, close().                                      *)
(***************************************************************************)

\* The callers of GeneratePendingHeader.
Tasks == {"g1", "g2"}

\* Largest number of GeneratePendingHeader calls.
MaxCalls == 2

\* Nobody holds the write lock of snapshotMu.
NoHolder == "free"

NoHeader == [nil |-> TRUE]
NoState == [nil |-> TRUE]
NoBlock == [nil |-> TRUE]

RECURSIVE commitTransactions(_, _)
\* commitTransactions(env, txs, interrupt) with an interrupt word that is nil
\* or that nobody signals: the environment when the loop breaks.
commitTransactions(e, it) ==
    IF e.gasPool < TxGas \/ Peek(it) = NoTx
        THEN e
        ELSE LET r == commitTransaction(e, Peek(it))
             IN  commitTransactions(Counted(r.env, r.err), Dispatch(it, r.err))

RECURSIVE RunPasses(_, _)
\* The commitTransactions calls of fillTransactions, in order.
RunPasses(e, ps) ==
    IF ps = << >> THEN e
    ELSE RunPasses(commitTransactions(WithGasPool(e), Head(ps)), Tail(ps))

\* fillTransactions(interrupt, env, block) with an interrupt word nobody signals.
fillTransactions(e, pending, locals, available) ==
    RunPasses(e, FillPasses(pending, locals, available))

RECURSIVE commitUncles(_, _)
\* The commitUncles closure of prepareWork run to its end over a pool: the
\* environments it can produce, one for every order the map can yield.
commitUncles(e, pool) ==
    IF pool = {} \/ UnclesFull(e)
        THEN {e}
        ELSE UNION { commitUncles(commitUncle(e, u).env, pool \ {u}) : u \in pool }

\* The copy without the receipts.
copy_NoReceipts(e) ==
    [e EXCEPT !.subManifest = << >>, !.receipts = << >>, !.discarded = FALSE]

\* environment.copy() in a zone: every field but subManifest is carried over,
\* the state, the receipts and the header by value.  The copy is a new
\* environment, on which discard() has not been called.
copy(e) == [e EXCEPT !.subManifest = << >>, !.discarded = FALSE]

\* common.NodeLocation.Context()
PRIME_CTX == "prime"
REGION_CTX == "region"
ZONE_CTX == "zone"
NodeContexts == {PRIME_CTX, REGION_CTX, ZONE_CTX}

\* &environment{header: header}: what prepareWork returns and what copy()
\* makes outside a zone, an environment with a header and nothing else.
HeaderEnv(e) ==
    [NoEnv EXCEPT !.parentHash = e.parentHash, !.number = e.number,
                  !.time = e.time, !.gasLimit = e.gasLimit, !.gasUsed = e.gasUsed,
                  !.root = e.root, !.manifestHash = e.manifestHash,
                  !.etxRollupHash = e.etxRollupHash,
                  !.state = NoState, !.ancestors = {}, !.family = {}]

\* environment.copy() in the node context nodeCtx.
copyAt(nodeCtx, e) == IF nodeCtx = ZONE_CTX THEN copy(e) ELSE HeaderEnv(e)

\* engine.IsDomCoincident(parent.Header()): the blocks of even height are.
IsDomCoincident(parentHash) == (parentHash \div BlockHash(1)) % 2 = 0

\* hc.CollectBlockManifest(parent.Header())
CollectBlockManifest(parentHash) == <<parentHash - BlockHash(1)>>

\* parent.ExtTransactions() and hc.CollectEtxRollup(parent)
ExtTransactions(parentHash) == << >>
CollectEtxRollup(parentHash) == <<9>>

\* engine.FinalizeAndAssemble: the state root is written to the header and
\* the block is assembled.
FinalizeAndAssemble(e, uncles) == NewBlock([e EXCEPT !.root = e.state], uncles)

\* FinalizeAssembleAndBroadcast without its cache call: the block with the
\* manifest hash and the etx rollup hash set.
FinalizeAssemble(e, uncles) ==
    LET block     == FinalizeAndAssemble(e, uncles)
        manifest  == IF IsDomCoincident(e.parentHash)
                         THEN <<e.parentHash>>
                         ELSE CollectBlockManifest(e.parentHash) \o <<e.parentHash>>
        etxRollup == IF IsDomCoincident(e.parentHash)
                         THEN ExtTransactions(e.parentHash)
                         ELSE CollectEtxRollup(e.parentHash)
                                  \o ExtTransactions(e.parentHash)
    IN  [block EXCEPT !.manifestHash = DeriveSha(manifest),
                      !.etxRollupHash = DeriveSha(etxRollup)]

\* The hash of a transaction: 1..3 for the transactions of A, 4..6 for B.
TxId(tx) == tx.nonce + 1 + (IF tx.from = "A" THEN 0 ELSE 3)

\* block.Body(): the uncles in the order of the block (an uncle stands in
\* the body as its height), the transactions as their hashes.
BlockBody(block) ==
    Body([i \in 1..Len(block.uncles) |-> block.uncles[i].number],
         [i \in 1..Len(block.txs) |-> TxId(block.txs[i])],
         block.etxs, block.subManifest)

\* block.Header()
BlockHeader(block) ==
    [parentHash |-> block.parentHash, number |-> block.number,
     gasUsed |-> block.gasUsed, gasLimit |-> block.gasLimit,
     root |-> block.root, manifestHash |-> block.manifestHash,
     etxRollupHash |-> block.etxRollupHash,
     uncleHash |-> HeaderOf(BlockBody(block)).uncleHash,
     txHash |-> HeaderOf(BlockBody(block)).txHash,
     etxHash |-> HeaderOf(BlockBody(block)).etxHash]

\* env.header = block.Header()
WithHeader(e, block) ==
    [e EXCEPT !.root = block.root, !.manifestHash = block.manifestHash,
              !.etxRollupHash = block.etxRollupHash,
              !.gasUsed = block.gasUsed, !.gasLimit = block.gasLimit]

\* CalcGasLimit for the header built on the parent of height block: the
\* chain of the model gives one gas limit to each height.
CalcGasLimit(block) == IF block % 2 = 0 THEN 22000 ELSE 66000

\* What TxPoolPending returns to the worker: the first transaction of A.
PoolPending ==
    CHOOSE q \in PendingInputs :
        /\ Len(q["A"]) = 1 /\ q["A"][1].nonce = 0
        /\ q["B"] = << >>

\* The side blocks the worker is sent: the ones of the two heights below the
\* chain head.
WorkerSideBlocks == { SideBlock(n) : n \in {ChainHeight - 2, ChainHeight - 1} }

\* The new-tx events the worker is sent: the first transaction of one sender.
WorkerEvents ==
    { q \in EventInputs :
        \E s \in Senders : /\ Len(q[s]) = 1 /\ q[s][1].nonce = 0
                           /\ \A o \in Senders \ {s} : q[o] = << >> }

\* The variables of the inclusion loop and of the uncle commit, which the
\* worker-level actions run to their end inside one step.
loopVars == <<env, txs, passes, interrupt, pc, call, resubmitAdjustCh>>

\* A caller of GeneratePendingHeader outside a call.  work and env are the
\* locals of the call, of the environment env is the copy of, built the block
\* it assembled, ret and err what the last call returned.
NoTask ==
    [pc |-> "idle", block |-> 0, fill |-> FALSE, coinbase |-> ZeroAddr,
     work |-> NoEnv, env |-> NoEnv, of |-> NoCurrent, built |-> NoBlock,
     ret |-> NoHeader, err |-> "none"]


\* GeneratePendingHeader(block, fill) up to the store that resets newTxs.
GenerateStart(t, block, fill) ==
    /\ tasks[t].pc = "idle"
    /\ calls < MaxCalls
    /\ calls' = calls + 1
    /\ newTxs' = 0
    /\ tasks' = [tasks EXCEPT ![t] =
           [NoTask EXCEPT !.pc = "check", !.block = block, !.fill = fill]]
    /\ UNCHANGED <<envs, current, coinbase, snapshotReceipts, snapshotState,
                   snapshotMu, stamps, main, exitCh, exitLoop, closing, reader,
                   running, snapshotBlock, events, loopVars, cacheVars, uncleVars>>

\* if w.coinbase.Equal(common.ZeroAddr): the first read of w.coinbase, made
\* without w.mu; a zero coinbase ends the call with an error.
GenerateCheck(t) ==
    /\ tasks[t].pc = "check"
    /\ tasks' = [tasks EXCEPT ![t] =
           IF NoEtherbase(coinbase)
           THEN [NoTask EXCEPT !.err = "etherbase not found"]
           ELSE [@ EXCEPT !.pc = "coinbase"]]
    /\ UNCHANGED <<envs, current, calls, coinbase, newTxs, snapshotReceipts,
                   snapshotState, snapshotMu, stamps, main, exitCh, exitLoop,
                   closing, reader, running, snapshotBlock, events, loopVars,
                   cacheVars, uncleVars>>

\* coinbase = w.coinbase: the second read of w.coinbase, made without w.mu
\* as well; the local is what the call hands to prepareWork in its
\* generateParams.
GenerateCoinbase(t) ==
    /\ tasks[t].pc = "coinbase"
    /\ tasks' = [tasks EXCEPT ![t].pc = "prepare", ![t].coinbase = coinbase]
    /\ UNCHANGED <<envs, current, calls, coinbase, newTxs, snapshotReceipts,
                   snapshotState, snapshotMu, stamps, main, exitCh, exitLoop,
                   closing, reader, running, snapshotBlock, events, loopVars,
                   cacheVars, uncleVars>>

\* prepareWork of the call from its w.mu.RLock() to its test of the
\* etherbase: a running worker whose w.coinbase, read again, is the zero
\* address ends the call with an error, and the deferred RUnlock releases
\* w.mu.  Otherwise the call holds the read lock on (muRLocked).  The write
\* lock is never held between two steps, so RLock never waits.
GenerateRefuse(t) ==
    /\ tasks[t].pc = "prepare"
    /\ tasks' = [tasks EXCEPT ![t] =
           IF running /\ NoEtherbase(coinbase)
           THEN [NoTask EXCEPT !.err = "refusing to mine without etherbase"]
           ELSE [@ EXCEPT !.pc = "makeEnv"]]
    /\ UNCHANGED <<envs, current, calls, coinbase, newTxs, snapshotReceipts,
                   snapshotState, snapshotMu, stamps, main, exitCh, exitLoop,
                   closing, reader, running, snapshotBlock, events, loopVars,
                   cacheVars, uncleVars>>

\* The rest of prepareWork, adjustGasLimit and fillTransactions of the call:
\* they build and fill the environment work, which no other task can reach
\* yet.  makeEnv is handed w.coinbase, not the coinbase of the
\* generateParams; the call has held w.mu.RLock() since the test, so it is
\* the value the test read.  The return of prepareWork releases w.mu.
GeneratePrepare(t) ==
    /\ tasks[t].pc = "makeEnv"
    /\ \E w1 \in commitUncles(makeEnv(tasks[t].block,
                                      CalcGasLimit(tasks[t].block),
                                      HeaderTime(tasks[t].block, Now),
                                      coinbase),
                              localUncles) :
         \E w2 \in commitUncles(w1, remoteUncles) :
           tasks' = [tasks EXCEPT ![t].pc = "copy",
                         ![t].work = IF tasks[t].fill
                                         THEN fillTransactions(w2, PoolPending,
                                                               {}, TRUE)
                                         ELSE w2]
    /\ UNCHANGED <<envs, current, calls, coinbase, newTxs, snapshotReceipts,
                   snapshotState, snapshotMu, stamps, main, exitCh, exitLoop,
                   closing, reader, running, snapshotBlock, events, loopVars,
                   cacheVars, uncleVars>>

\* The rest of prepareWork, under the w.mu.RLock() held since the test of the
\* etherbase and released by its return, and adjustGasLimit of the call and
\* fillTransactions up to its first commitTransactions call, whose loop then
\* runs turn by turn.  The
\* pool hands out pending, of which the accounts in locals are local;
\* available tells whether the etx set of the parent and the pool answer.
\* The interrupt word of the call is new and holds None.
GenerateFill(t, pending, locals, available) ==
    /\ tasks[t].pc = "makeEnv"
    /\ pc = "idle"
    /\ \E w1 \in commitUncles(makeEnv(tasks[t].block,
                                      CalcGasLimit(tasks[t].block),
                                      HeaderTime(tasks[t].block, Now),
                                      coinbase),
                              localUncles) :
         \E w2 \in commitUncles(w1, remoteUncles) :
           LET ps == IF tasks[t].fill
                         THEN FillPasses(pending, locals, available)
                         ELSE << >>
           IN  IF ps = << >>
               THEN /\ tasks' = [tasks EXCEPT ![t].pc = "copy", ![t].work = w2]
                    /\ UNCHANGED <<env, txs, passes, interrupt, pc, call>>
               ELSE /\ tasks' = [tasks EXCEPT ![t].pc = "fill"]
                    /\ env' = WithGasPool(w2)
                    /\ txs' = ps[1]
                    /\ passes' = Tail(ps)
                    /\ interrupt' = commitInterruptNone
                    /\ pc' = "poll"
                    /\ call' = [NewCall("fill", w2) EXCEPT !.input = ps[1],
                                                           !.locals = locals]
    /\ UNCHANGED <<envs, current, calls, coinbase, newTxs, snapshotReceipts,
                   snapshotState, snapshotMu, stamps, main, exitCh, exitLoop,
                   closing, reader, running, snapshotBlock, events,
                   resubmitAdjustCh, cacheVars, uncleVars>>

\* A commitTransactions call of fillTransactions has returned: on true
\* fillTransactions returns at once, otherwise the next iterator runs; when
\* fillTransactions returns, the environment it filled is the work of the
\* GeneratePendingHeader call.
FillReturns ==
    /\ pc = "done"
    /\ call.caller = "fill"
    /\ \E t \in Tasks :
         /\ tasks[t].pc = "fill"
         /\ IF ~call.ret /\ passes # << >>
            THEN /\ txs' = Head(passes)
                 /\ passes' = Tail(passes)
                 /\ pc' = "poll"
                 /\ call' = [NewCall("fill", env) EXCEPT !.input = Head(passes),
                                                         !.locals = call.locals]
                 /\ UNCHANGED tasks
            ELSE /\ tasks' = [tasks EXCEPT ![t].pc = "copy", ![t].work = env]
                 /\ passes' = << >>
                 /\ pc' = "idle"
                 /\ UNCHANGED <<txs, call>>
    /\ UNCHANGED <<env, interrupt, resubmitAdjustCh, envs, current, calls,
                   coinbase, newTxs, snapshotReceipts, snapshotState, snapshotMu,
                   stamps, main, exitCh, exitLoop, closing, reader, running,
                   snapshotBlock, events, cacheVars, uncleVars>>

\* env := work.copy() and the test of w.current against nil.
GenerateCopy(t) ==
    /\ tasks[t].pc = "copy"
    /\ tasks' = [tasks EXCEPT ![t].env = copyAt(ZONE_CTX, tasks[t].work),
                              ![t].pc = IF current # NoCurrent THEN "discard"
                                                               ELSE "assign"]
    /\ UNCHANGED <<envs, current, calls, coinbase, newTxs, snapshotReceipts,
                   snapshotState, snapshotMu, stamps, main, exitCh, exitLoop,
                   closing, reader, running, snapshotBlock, events, loopVars,
                   cacheVars, uncleVars>>

\* w.current.discard(): w.current is read again and the environment it names
\* now is discarded.
GenerateDiscard(t) ==
    /\ tasks[t].pc = "discard"
    /\ envs' = [envs EXCEPT ![current] = discard(@)]
    /\ tasks' = [tasks EXCEPT ![t].pc = "assign"]
    /\ UNCHANGED <<current, calls, coinbase, newTxs, snapshotReceipts,
                   snapshotState, snapshotMu, stamps, main, exitCh, exitLoop,
                   closing, reader, running, snapshotBlock, events, loopVars,
                   cacheVars, uncleVars>>

\* w.current = work
GenerateAssign(t) ==
    /\ tasks[t].pc = "assign"
    /\ envs' = Append(envs, tasks[t].work)
    /\ current' = Len(envs) + 1
    /\ tasks' = [tasks EXCEPT ![t].pc = "finalize", ![t].of = Len(envs) + 1,
                              ![t].work = NoEnv]
    /\ UNCHANGED <<calls, coinbase, newTxs, snapshotReceipts, snapshotState,
                   snapshotMu, stamps, main, exitCh, exitLoop, closing, reader,
                   running, snapshotBlock, events, loopVars, cacheVars, uncleVars>>

\* FinalizeAssembleAndBroadcast on the copy with the list env.unclelist()
\* yields, with its AddPendingBlockBody call, and env.header = block.Header().
GenerateFinalize(t) ==
    /\ tasks[t].pc = "finalize"
    /\ \E uncles \in unclelist(tasks[t].env) :
         LET block == FinalizeAssemble(tasks[t].env, uncles)
             key   == getPendingBlockBodyKey(BlockHeader(block))
             hit   == LruContains(pendingBlockBody, key)
         IN  /\ pendingBlockBody' = AddBody(pendingBlockBody, key, BlockBody(block))
             /\ added' = added \cup {<<key, BlockBody(block)>>}
             /\ cacheOp' = CacheOp("Add", key, BlockBody(block), hit,
                                   IF hit THEN << >> ELSE <<key>>, NoBody,
                                   NotPersisted)
             /\ tasks' = [tasks EXCEPT ![t].pc = "snapshot", ![t].built = block,
                                        ![t].env = WithHeader(tasks[t].env, block)]
    /\ UNCHANGED <<envs, current, calls, coinbase, newTxs, snapshotReceipts,
                   snapshotState, snapshotMu, stamps, main, exitCh, exitLoop,
                   closing, reader, running, snapshotBlock, events, loopVars,
                   dbKeys, dbBodies, persist, uncleVars>>

\* updateSnapshot(env) up to the write of snapshotBlock: the write lock of
\* snapshotMu is taken and the block is made of the environment, its uncles
\* in the order env.unclelist() yields.
LockAndWriteBlock(holder, e) ==
    /\ snapshotMu = NoHolder
    /\ snapshotMu' = holder
    /\ \E uncles \in unclelist(e) : snapshotBlock' = NewBlock(e, uncles)
    /\ stamps' = [stamps EXCEPT !.calls = @ + 1, !.block = stamps.calls + 1]
    /\ UNCHANGED <<snapshotReceipts, snapshotState>>

\* updateSnapshot(env) from there: receipts and state are written by value
\* and the lock is released.
WriteRestAndUnlock(holder, e) ==
    /\ snapshotMu = holder
    /\ snapshotMu' = NoHolder
    /\ snapshotReceipts' = e.receipts
    /\ snapshotState' = e.state
    /\ stamps' = [stamps EXCEPT !.receipts = stamps.calls, !.state = stamps.calls]
    /\ UNCHANGED snapshotBlock

\* w.updateSnapshot(env) of GeneratePendingHeader up to the write of the block.
GenerateSnapshot(t) ==
    /\ tasks[t].pc = "snapshot"
    /\ LockAndWriteBlock(t, tasks[t].env)
    /\ tasks' = [tasks EXCEPT ![t].pc = "snapshotted"]
    /\ UNCHANGED <<envs, current, calls, coinbase, newTxs, main, exitCh, exitLoop,
                   closing, reader, running, events, loopVars, cacheVars, uncleVars>>

\* w.updateSnapshot(env) of GeneratePendingHeader from there to its return.
GenerateSnapshotDone(t) ==
    /\ tasks[t].pc = "snapshotted"
    /\ WriteRestAndUnlock(t, tasks[t].env)
    /\ tasks' = [tasks EXCEPT ![t].pc = "return"]
    /\ UNCHANGED <<envs, current, calls, coinbase, newTxs, main, exitCh, exitLoop,
                   closing, reader, running, events, loopVars, cacheVars, uncleVars>>

\* return w.snapshotBlock.Header(), nil: the snapshot is read without its lock.
GenerateReturn(t) ==
    /\ tasks[t].pc = "return"
    /\ tasks' = [tasks EXCEPT ![t] =
           [NoTask EXCEPT !.built = tasks[t].built,
                          !.ret = BlockHeader(snapshotBlock)]]
    /\ UNCHANGED <<envs, current, calls, coinbase, newTxs, snapshotReceipts,
                   snapshotState, snapshotMu, stamps, main, exitCh, exitLoop,
                   closing, reader, running, snapshotBlock, events, loopVars,
                   cacheVars, uncleVars>>

\* len(ev.Txs)
TxCount(queues) == Len(queues["A"]) + Len(queues["B"])

\* mainLoop waiting in its select.  In an event len is the size of the event
\* and queues its transactions by account until they are handed to
\* commitTransactions, eligible tells that the arm got past its tests, tcount
\* is the local of that name, committed the number of transactions
\* commitTransactions added and env the environment handed to updateSnapshot.
NoEvent == [pc |-> "select", len |-> 0, queues |-> NoTxs, eligible |-> FALSE,
            tcount |-> 0, committed |-> 0, env |-> NoCurrent]

\* gp := w.current.gasPool; gp != nil && gp.Gas() < params.TxGas
BlockFull(e) == e.gasPool # NoGasPool /\ e.gasPool < TxGas

\* The new-tx arm of mainLoop takes an event from txsCh and tests
\* !w.isRunning() && w.current != nil.
MainReceive(queues) ==
    /\ main.pc = "select"
    /\ events < MaxEvents
    /\ events' = events + 1
    /\ main' = IF ~running /\ current # NoCurrent
                   THEN [NoEvent EXCEPT !.pc = "gas", !.len = TxCount(queues),
                                        !.queues = queues]
                   ELSE [NoEvent EXCEPT !.pc = "add", !.len = TxCount(queues)]
    /\ UNCHANGED <<envs, current, tasks, calls, coinbase, newTxs, snapshotReceipts,
                   snapshotState, snapshotMu, stamps, exitCh, exitLoop, closing,
                   reader, running, snapshotBlock, loopVars, cacheVars, uncleVars>>

\* The gas test of the arm on the w.current it reads: with a full block the
\* arm is left by continue, and the counter is not advanced.
MainGas ==
    /\ main.pc = "gas"
    /\ main' = IF BlockFull(envs[current])
                   THEN [NoEvent EXCEPT !.len = main.len]
                   ELSE [main EXCEPT !.pc = "tcount", !.eligible = TRUE]
    /\ UNCHANGED <<envs, current, tasks, calls, coinbase, newTxs, snapshotReceipts,
                   snapshotState, snapshotMu, stamps, exitCh, exitLoop, closing,
                   reader, running, snapshotBlock, events, loopVars, cacheVars,
                   uncleVars>>

\* tcount := w.current.tcount, after the transactions are grouped by account.
MainTcount ==
    /\ main.pc = "tcount"
    /\ main' = [main EXCEPT !.pc = "commit", !.tcount = envs[current].tcount]
    /\ UNCHANGED <<envs, current, tasks, calls, coinbase, newTxs, snapshotReceipts,
                   snapshotState, snapshotMu, stamps, exitCh, exitLoop, closing,
                   reader, running, snapshotBlock, events, loopVars, cacheVars,
                   uncleVars>>

\* w.commitTransactions(w.current, txset, nil) run to its end on the
\* environment w.current names at the call.
MainCommit ==
    /\ main.pc = "commit"
    /\ LET after == commitTransactions(WithGasPool(envs[current]),
                                       NewTransactionsByPriceAndNonce(main.queues))
       IN  /\ envs' = [envs EXCEPT ![current] = after]
           /\ main' = [main EXCEPT !.pc = "compare", !.queues = NoTxs,
                                   !.committed = after.tcount - envs[current].tcount]
    /\ UNCHANGED <<current, tasks, calls, coinbase, newTxs, snapshotReceipts,
                   snapshotState, snapshotMu, stamps, exitCh, exitLoop, closing,
                   reader, running, snapshotBlock, events, loopVars, cacheVars,
                   uncleVars>>

\* w.commitTransactions(w.current, txset, nil) begins on the environment
\* w.current names at the call; its loop then runs turn by turn, with a nil
\* interrupt word.
MainCommitCall ==
    /\ main.pc = "commit"
    /\ pc = "idle"
    /\ env' = WithGasPool(envs[current])
    /\ envs' = [envs EXCEPT ![current] = WithGasPool(@)]
    /\ txs' = NewTransactionsByPriceAndNonce(main.queues)
    /\ passes' = << >>
    /\ interrupt' = NoInterrupt
    /\ pc' = "poll"
    /\ call' = [NewCall("event", envs[current]) EXCEPT
                    !.input = NewTransactionsByPriceAndNonce(main.queues),
                    !.target = current]
    /\ main' = [main EXCEPT !.pc = "committing", !.queues = NoTxs]
    /\ UNCHANGED <<current, tasks, calls, coinbase, newTxs, snapshotReceipts,
                   snapshotState, snapshotMu, stamps, exitCh, exitLoop, closing,
                   reader, running, snapshotBlock, events, resubmitAdjustCh,
                   cacheVars, uncleVars>>

\* The commitTransactions call of the arm has returned.
EventReturns ==
    /\ pc = "done"
    /\ call.caller = "event"
    /\ main.pc = "committing"
    /\ pc' = "idle"
    /\ main' = [main EXCEPT !.pc = "compare", !.committed = env.tcount - call.tcount]
    /\ UNCHANGED <<env, txs, passes, interrupt, call, resubmitAdjustCh, envs,
                   current, tasks, calls, coinbase, newTxs, snapshotReceipts,
                   snapshotState, snapshotMu, stamps, exitCh, exitLoop, closing,
                   reader, running, snapshotBlock, events, cacheVars, uncleVars>>

\* if tcount != w.current.tcount: w.current is read again.
MainCompare ==
    /\ main.pc = "compare"
    /\ main' = [main EXCEPT !.pc = IF main.tcount # envs[current].tcount
                                       THEN "snapshot" ELSE "add"]
    /\ UNCHANGED <<envs, current, tasks, calls, coinbase, newTxs, snapshotReceipts,
                   snapshotState, snapshotMu, stamps, exitCh, exitLoop, closing,
                   reader, running, snapshotBlock, events, loopVars, cacheVars,
                   uncleVars>>

\* The argument of w.updateSnapshot(w.current): w.current is read once more.
MainSnapshotArg ==
    /\ main.pc = "snapshot"
    /\ main' = [main EXCEPT !.pc = "lock", !.env = current]
    /\ UNCHANGED <<envs, current, tasks, calls, coinbase, newTxs, snapshotReceipts,
                   snapshotState, snapshotMu, stamps, exitCh, exitLoop, closing,
                   reader, running, snapshotBlock, events, loopVars, cacheVars,
                   uncleVars>>

\* updateSnapshot of the arm up to the write of the block, on the
\* environment it was handed.
MainSnapshot ==
    /\ main.pc = "lock"
    /\ LockAndWriteBlock("main", envs[main.env])
    /\ main' = [main EXCEPT !.pc = "snapshotted"]
    /\ UNCHANGED <<envs, current, tasks, calls, coinbase, newTxs, exitCh, exitLoop,
                   closing, reader, running, events, loopVars, cacheVars, uncleVars>>

\* updateSnapshot of the arm from there to its return.
MainSnapshotDone ==
    /\ main.pc = "snapshotted"
    /\ WriteRestAndUnlock("main", envs[main.env])
    /\ main' = [main EXCEPT !.pc = "add"]
    /\ UNCHANGED <<envs, current, tasks, calls, coinbase, newTxs, exitCh, exitLoop,
                   closing, reader, running, events, loopVars, cacheVars, uncleVars>>

\* atomic.AddInt32(&w.newTxs, int32(len(ev.Txs))) at the end of the arm.
MainAdd ==
    /\ main.pc = "add"
    /\ newTxs' = newTxs + main.len
    /\ main' = [NoEvent EXCEPT !.len = main.len]
    /\ UNCHANGED <<envs, current, tasks, calls, coinbase, snapshotReceipts,
                   snapshotState, snapshotMu, stamps, exitCh, exitLoop, closing,
                   reader, running, snapshotBlock, events, loopVars, cacheVars,
                   uncleVars>>

\* The side blocks of a pool that the cleaner tick keeps with the chain head
\* at height head.
Swept(pool, head) == { u \in pool : ~(u.number + staleThreshold <= head) }

\* The pool a commitUncles loop of prepareWork is iterating, if any.
Iterated ==
    IF upc = "local" THEN localUncles
    ELSE IF upc = "remote" THEN remoteUncles
    ELSE {}

\* The cleaner arm of mainLoop: under the read lock of uncleMu the stale
\* entries of both pools are deleted.  prepareWork holds the same read lock
\* while it iterates the pools, so the arm can run beside it; a delete from
\* the map that is being iterated is a data race: the loop may still yield
\* the deleted entries or miss them, or the runtime stops the process.
MainTick ==
    /\ main.pc = "select"
    /\ upc # "fatal"
    /\ localUncles' = Swept(localUncles, ChainHeight)
    /\ remoteUncles' = Swept(remoteUncles, ChainHeight)
    /\ LET gone == Iterated \ Swept(Iterated, ChainHeight)
       IN  IF gone = {}
           THEN UNCHANGED <<blocks, upc>>
           ELSE \/ UNCHANGED <<blocks, upc>>
                \/ blocks' = blocks \ gone /\ UNCHANGED upc
                \/ upc' = "fatal" /\ UNCHANGED blocks
    /\ UNCHANGED <<work, uncleErr, workerVars, cacheVars, txVars>>

\* w.mu is read-locked: a prepareWork call is between its w.mu.RLock() and
\* its return, which runs the deferred RUnlock.
muRLocked ==
    \/ upc # "idle"
    \/ \E t \in Tasks : tasks[t].pc = "makeEnv"

\* setEtherbase(addr): w.mu.Lock() is granted while no prepareWork call holds
\* the read lock; the write and the deferred Unlock are in the same step.
setEtherbase(addr) ==
    /\ ~muRLocked
    /\ coinbase # addr
    /\ coinbase' = addr
    /\ UNCHANGED <<envs, current, tasks, calls, newTxs, snapshotReceipts,
                   snapshotState, snapshotMu, stamps, main, exitCh, exitLoop,
                   closing, reader, cacheVars, txVars, uncleVars>>

\* The read lock of snapshotMu without the wait for the writer.
RLock_NoWait(mu) == TRUE

\* snapshotMu.RLock(): granted while no writer holds the lock.
RLock(mu) == mu = NoHolder

\* What pending() returns for the snapshot state s: a copy of its own.
PendingState(s) == IF s = NoState THEN NoState ELSE [ref |-> "copy", val |-> s]

\* What a reader was handed: the updateSnapshot calls that wrote the block,
\* the receipts and the state it got, and the state itself.
Seen(op, b, r, s, state) ==
    [op |-> op, block |-> b, receipts |-> r, state |-> s, handle |-> state,
     mutated |-> FALSE]

\* pending(): the block and a copy of the state, read under the read lock.
Pending ==
    /\ RLock(snapshotMu)
    /\ reader' = Seen("pending", stamps.block, stamps.state, stamps.state,
                      PendingState(snapshotState))
    /\ UNCHANGED <<envs, current, tasks, calls, coinbase, newTxs, snapshotReceipts,
                   snapshotState, snapshotMu, stamps, main, exitCh, exitLoop,
                   closing, cacheVars, txVars, uncleVars>>

\* pendingBlockAndReceipts(): the block and the receipts, read under the read lock.
PendingBlockAndReceipts ==
    /\ RLock(snapshotMu)
    /\ reader' = Seen("pendingBlockAndReceipts", stamps.block, stamps.receipts,
                      stamps.receipts, NoState)
    /\ UNCHANGED <<envs, current, tasks, calls, coinbase, newTxs, snapshotReceipts,
                   snapshotState, snapshotMu, stamps, main, exitCh, exitLoop,
                   closing, cacheVars, txVars, uncleVars>>

\* The state after a write to it by its holder.
Written(state) == [state EXCEPT !.nonce["A"] = @ + 1]

\* The caller of pending() writes to the state it was handed.
MutateReturnedState ==
    /\ reader.handle # NoState
    /\ ~reader.mutated
    /\ IF reader.handle.ref = "copy"
       THEN /\ reader' = [reader EXCEPT !.handle.val = Written(@), !.mutated = TRUE]
            /\ UNCHANGED snapshotState
       ELSE /\ reader' = [reader EXCEPT !.mutated = TRUE]
            /\ snapshotState' = Written(snapshotState)
    /\ UNCHANGED <<envs, current, tasks, calls, coinbase, newTxs, snapshotReceipts,
                   snapshotMu, stamps, main, exitCh, exitLoop, closing, cacheVars,
                   txVars, uncleVars>>

\* close(): running is cleared and exitCh closed, then wg.Wait() returns once
\* mainLoop has returned.
close ==
    /\ IF closing = "none"
       THEN /\ running' = FALSE
            /\ exitCh' = TRUE
            /\ closing' = "wait"
       ELSE /\ closing = "wait"
            /\ main.pc = "returned"
            /\ closing' = "returned"
            /\ UNCHANGED <<running, exitCh>>
    /\ UNCHANGED <<envs, current, tasks, calls, coinbase, newTxs, snapshotReceipts,
                   snapshotState, snapshotMu, stamps, main, exitLoop, reader,
                   snapshotBlock, events, loopVars, cacheVars, uncleVars>>

\* eventExitLoop returns when exitCh is closed.
eventExitLoop ==
    /\ exitLoop = "running"
    /\ exitCh
    /\ exitLoop' = "returned"
    /\ UNCHANGED <<envs, current, tasks, calls, coinbase, newTxs, snapshotReceipts,
                   snapshotState, snapshotMu, stamps, main, exitCh, closing, reader,
                   cacheVars, txVars, uncleVars>>

WorkerInit ==
    /\ envs = << >>
    /\ current = NoCurrent
    /\ tasks = [t \in Tasks |-> NoTask]
    /\ calls = 0
    /\ coinbase \in {ZeroAddr, Etherbase}
    /\ newTxs = 0
    /\ snapshotReceipts = << >>
    /\ snapshotState = NoState
    /\ snapshotMu = NoHolder
    /\ stamps = [calls |-> 0, block |-> 0, receipts |-> 0, state |-> 0]
    /\ main = NoEvent
    /\ exitCh = FALSE
    /\ exitLoop = "running"
    /\ closing = "none"
    /\ reader = Seen("none", 0, 0, 0, NoState)

Init == CacheInit /\ TxInit /\ UncleInit /\ WorkerInit

\* The state after construction of a node configured with an etherbase.
Configured == Init /\ coinbase = Etherbase

\* The steps of the GeneratePendingHeader call of the caller t.
GenerateSteps(t) ==
    \/ GenerateCheck(t)
    \/ GenerateCoinbase(t)
    \/ GenerateRefuse(t)
    \/ GeneratePrepare(t)
    \/ GenerateCopy(t)
    \/ GenerateDiscard(t)
    \/ GenerateAssign(t)
    \/ GenerateFinalize(t)
    \/ GenerateSnapshot(t)
    \/ GenerateSnapshotDone(t)
    \/ GenerateReturn(t)

\* The GeneratePendingHeader calls.
GenerateCalls ==
    \/ \E t \in Tasks, block \in Parents, fill \in BOOLEAN : GenerateStart(t, block, fill)
    \/ \E t \in Tasks : GenerateSteps(t)

\* The new-tx arm of mainLoop.
MainArm ==
    \/ /\ main.pc = "select"
       /\ events < MaxEvents
       /\ \E queues \in WorkerEvents : MainReceive(queues)
    \/ MainGas
    \/ MainTcount
    \/ MainCommit
    \/ MainCompare
    \/ MainSnapshotArg
    \/ MainSnapshot
    \/ MainSnapshotDone
    \/ MainAdd

\* The GeneratePendingHeader calls and the new-tx arm of mainLoop.
WorkerCore ==
    \/ GenerateCalls
    \/ MainArm

\* The worker with its miner: start(), stop() and the cleaner.
WorkerNext ==
    \/ WorkerCore
    \/ MainTick
    \/ \E on \in BOOLEAN : SetRunning(on)

SpecWorker == Init /\ [][WorkerNext]_vars

\* The GeneratePendingHeader calls with setEtherbase, start() and stop().
EtherbaseNext ==
    \/ GenerateCalls
    \/ \E addr \in {ZeroAddr, Etherbase} : setEtherbase(addr)
    \/ \E on \in BOOLEAN : SetRunning(on)

SpecEtherbase == Init /\ [][EtherbaseNext]_vars

\* The GeneratePendingHeader calls of one caller and the new-tx arm of
\* mainLoop, with the readers of the snapshot.  Side blocks reach the local
\* pool before the first call, so that the environments hold uncles and
\* unclelist has more than one order to hand out.
SnapshotNext ==
    \/ \E block \in Parents, fill \in BOOLEAN : GenerateStart("g1", block, fill)
    \/ GenerateSteps("g1")
    \/ MainArm
    \/ (calls = 0 /\ \E uncle \in WorkerSideBlocks : AddSideBlock(uncle, TRUE))
    \/ Pending
    \/ PendingBlockAndReceipts
    \/ MutateReturnedState

SpecSnapshot == Init /\ [][SnapshotNext]_vars

\* The worker that is closed.  Every goroutine that can take a step is
\* scheduled: weak fairness of each step.
CloseNext ==
    \/ WorkerCore
    \/ MainTick
    \/ close
    \/ eventExitLoop

SpecClose == Init /\ [][CloseNext]_vars /\ WF_vars(CloseNext)

\* One GeneratePendingHeader call on the chain head with what the pool holds
\* and the new-tx arm of mainLoop, one after the other, with the loop of
\* commitTransactions run turn by turn.
TxNext ==
    \/ /\ calls = 0
       /\ main.pc = "select"
       /\ \E fill \in BOOLEAN : GenerateStart("g1", ChainHeight, fill)
    \/ GenerateCheck("g1")
    \/ GenerateCoinbase("g1")
    \/ GenerateRefuse("g1")
    \/ /\ tasks["g1"].pc = "makeEnv"
       /\ \E locals \in SUBSET Senders, available \in BOOLEAN,
             pending \in PendingInputs :
               GenerateFill("g1", pending, locals, available)
    \/ LoopIteration
    \/ FillReturns
    \/ GenerateCopy("g1")
    \/ GenerateAssign("g1")
    \/ GenerateFinalize("g1")
    \/ GenerateSnapshot("g1")
    \/ GenerateSnapshotDone("g1")
    \/ GenerateReturn("g1")
    \/ /\ tasks["g1"].pc = "idle"
       /\ main.pc = "select"
       /\ events < MaxEvents
       /\ \E queues \in EventInputs : MainReceive(queues)
    \/ MainGas
    \/ MainTcount
    \/ MainCommitCall
    \/ EventReturns
    \/ MainCompare
    \/ MainSnapshotArg
    \/ MainSnapshot
    \/ MainSnapshotDone
    \/ MainAdd
    \/ \E on \in BOOLEAN : SetRunning(on)

SpecTx == Configured /\ [][TxNext]_vars


\* The cache calls of the worker's goroutines, the calls that run beside a
\* Store or a Load included.
CacheNext ==
    \/ /\ persist.mixed < MaxMixed
       /\ \E b \in Bodies : AddPendingBlockBody(HeaderOf(b), b)
    \/ /\ persist.mixed < MaxMixed
       /\ \E h \in Headers : GetPendingBlockBody(h)
    \/ StoreKeys
    \/ StoreKey
    \/ StoreWriteKeys
    \/ LoadKeys
    \/ LoadKey
    \/ Restart

SpecCache == Configured /\ [][CacheNext]_vars

UncleNext ==
    \/ \E uncle \in SideBlocks, local \in BOOLEAN : AddSideBlock(uncle, local)
    \/ \E block \in Parents, gasLimit \in GasLimits :
            prepareWork(Now, FALSE, block, gasLimit)
    \/ CommitUnclesStep

SpecUncle == Init /\ [][UncleNext]_vars

\* The uncle commit of prepareWork with commitUncle calls on the environment
\* it returned.
CommitUncleNext ==
    \/ UncleNext
    \/ \E uncle \in SideBlocks : commitUncleCall(uncle)

SpecCommitUncle == Init /\ [][CommitUncleNext]_vars

\* prepareWork with every timestamp and both values of forceTime, on a worker
\* that is started and stopped.
HeaderNext ==
    \/ \E timestamp \in Timestamps, forceTime \in BOOLEAN, block \in Parents,
          gasLimit \in GasLimits :
            prepareWork(timestamp, forceTime, block, gasLimit)
    \/ CommitUnclesStep
    \/ \E on \in BOOLEAN : SetRunning(on)

SpecHeader == Init /\ [][HeaderNext]_vars

\* The uncle pools with the cleaner arm of the main loop.
SweepNext ==
    \/ UncleNext
    \/ MainTick

SpecSweep == Init /\ [][SweepNext]_vars

(***************************************************************************)
(* Claims about the pending-body cache (checked under SpecCache).          *)
(***************************************************************************)
CachedKeys == { pendingBlockBody[i].key : i \in 1..Len(pendingBlockBody) }

\* C1: GetPendingBlockBody(H) returns a body B exactly when AddPendingBlockBody
\* was called with H's fingerprint and B and the entry is still cached: a
\* returned body is one that was added under that fingerprint, a cached
\* fingerprint yields a body, and an uncached one yields none.
C1_GetReturnsAddedBody ==
    cacheOp.name = "Get" =>
        /\ (cacheOp.ret # NoBody => <<cacheOp.key, cacheOp.ret>> \in added)
        /\ (cacheOp.hit => cacheOp.ret # NoBody)
        /\ (~cacheOp.hit => cacheOp.ret = NoBody)

\* C2: Store, restart, Load yields a cache whose key -> body mapping is the
\* mapping that was stored.
C2_StoreLoadRoundTrip ==
    (cacheOp.name = "Load" /\ cacheOp.persisted # NotPersisted) =>
        Mapping(pendingBlockBody) = cacheOp.persisted[1]

\* C3: after LoadPendingBlockBody, and before another call writes to the
\* table, the on-disk table is empty: no body blob and no keys index remain.
C3_TableEmptyAfterLoad ==
    (cacheOp.name = "Load" /\ persist.op = "none") =>
        /\ dbKeys = << >>
        /\ \A k \in Keys : dbBodies[k] = NoBody

\* C4: AddPendingBlockBody with a fingerprint that is already cached changes
\* nothing: every cached body, the one under that fingerprint included, and the
\* order of the entries stay as they were.
C4_AddPresentIsNoOp ==
    [][(cacheOp'.name = "Add" /\ LruContains(pendingBlockBody, cacheOp'.key))
           => pendingBlockBody' = pendingBlockBody]_vars

\* C4 witness: an Add of a different body under a cached fingerprint has
\* happened, and the cache still holds the first body.
C4_Witness ==
    /\ cacheOp.name = "Add"
    /\ cacheOp.hit
    /\ LruContains(pendingBlockBody, cacheOp.key)
    /\ LruPeek(pendingBlockBody, cacheOp.key) # cacheOp.body

\* The step hands key k to the cache for insertion: an AddPendingBlockBody
\* call, or one turn of the loop of LoadPendingBlockBody.
Inserts(k) ==
    \/ cacheOp'.name = "Add" /\ cacheOp'.key = k /\ cacheOp' # cacheOp
    \/ /\ persist.op = "load"
       /\ persist.i <= Len(persist.keys)
       /\ persist.keys[persist.i] = k
       /\ persist' # persist
       /\ persist'.mixed = persist.mixed

\* C5: the cache never holds more than pendingBlockBodyLimit entries, and an
\* insertion of a new fingerprint into a full cache (by AddPendingBlockBody or
\* by LoadPendingBlockBody) drops exactly the least recently used entry and
\* keeps the others in order.
C5_BoundedLru ==
    /\ [](Len(pendingBlockBody) <= pendingBlockBodyLimit)
    /\ [][\A k \in Keys :
            (/\ Inserts(k)
             /\ ~LruContains(pendingBlockBody, k)
             /\ Len(pendingBlockBody) = pendingBlockBodyLimit)
            => /\ Len(pendingBlockBody') = pendingBlockBodyLimit
               /\ SubSeq(pendingBlockBody', 1, pendingBlockBodyLimit - 1)
                      = Tail(pendingBlockBody)
               /\ pendingBlockBody'[pendingBlockBodyLimit].key = k]_vars

\* C5 witness: a full cache after an insertion that evicted an added entry.
C5_Witness ==
    /\ cacheOp.name = "Add"
    /\ ~cacheOp.hit
    /\ Len(pendingBlockBody) = pendingBlockBodyLimit
    /\ \E p \in added : p[1] \notin CachedKeys

(***************************************************************************)
(* Claims about the inclusion loop (checked under SpecTx).                 *)
(***************************************************************************)
RECURSIVE SumGasUsed(_, _)
\* The gas used by the first n receipts.
SumGasUsed(receipts, n) ==
    IF n = 0 THEN 0 ELSE SumGasUsed(receipts, n - 1) + receipts[n].gasUsed

\* The lists of a block (or of an environment) are parallel and its gas adds up.
ParallelLists(b) ==
    /\ Len(b.txs) = Len(b.receipts)
    /\ \A i \in 1..Len(b.receipts) :
          /\ i <= Len(b.txs)
          /\ b.receipts[i].gasUsed = b.txs[i].used
          /\ b.receipts[i].status = b.txs[i].status
          /\ b.receipts[i].etxs = b.txs[i].etxs
          /\ b.receipts[i].cumulativeGasUsed = SumGasUsed(b.receipts, i)
    /\ SumGasUsed(b.receipts, Len(b.receipts)) = b.gasUsed
    /\ b.gasUsed <= b.gasLimit

\* C8: in every state of the environment and in every block built from it,
\* there are as many receipts as transactions, receipts[i] is the receipt of
\* txs[i], the receipts' gas adds up to the header's gasUsed, and gasUsed is at
\* most gasLimit.
C8_TxsReceiptsGas ==
    /\ ParallelLists(env)
    /\ \A i \in DOMAIN envs : ParallelLists(envs[i])
    /\ \A t \in Tasks : ParallelLists(tasks[t].env)
    /\ ParallelLists(snapshotBlock)

\* C8 witness: a snapshot block with two transactions, written after a new-tx
\* event added to what the fill had committed.
C8_Witness ==
    /\ pc = "idle"
    /\ events >= 1
    /\ call.caller = "event"
    /\ call.tcount >= 1
    /\ Len(snapshotBlock.txs) > call.tcount
    /\ snapshotBlock.gasUsed > 0

\* The transactions of sender s among list, in order.
TxsFrom(list, s) == SelectSeq(list, LAMBDA t : t.from = s)

\* The nonces of every sender in list run from the sender's parent nonce up.
ContiguousNonces(list) ==
    \A s \in Senders :
        \A k \in 1..Len(TxsFrom(list, s)) :
            TxsFrom(list, s)[k].nonce = ParentNonce[s] + k - 1

\* C10: for every sender the nonces of its included transactions, in inclusion
\* order, are the parent-state nonce of the sender, that nonce plus one, and
\* so on, after any runs of the loop on the environment.
C10_ContiguousNonces ==
    /\ ContiguousNonces(env.txs)
    /\ \A i \in DOMAIN envs : ContiguousNonces(envs[i].txs)
    /\ ContiguousNonces(snapshotBlock.txs)

\* C10 witness: a new-tx event has added the second transaction of a sender
\* whose first transaction an earlier run had included.
C10_Witness ==
    /\ pc = "done"
    /\ call.caller = "event"
    /\ call.tcount >= 1
    /\ env.tcount > call.tcount
    /\ \E s \in Senders :
          /\ Len(TxsFrom(env.txs, s)) = 2
          /\ env.txs[Len(env.txs)].from = s

(***************************************************************************)
(* Claims about the uncle set (checked under SpecCommitUncle).             *)
(***************************************************************************)
\* The uncle set of environment e is admissible: at most two entries, every
\* entry stored under its own hash, forking off an ancestor, no sibling of
\* the block being built and not yet in the family.
AdmissibleUncles(e) ==
    /\ Cardinality(DOMAIN e.uncles) <= 2
    /\ \A h \in DOMAIN e.uncles :
          LET u == e.uncles[h]
          IN  /\ u.hash = h
              /\ u.parentHash \in e.ancestors
              /\ u.parentHash # e.parentHash
              /\ u.hash \notin e.family

\* C9: after any sequence of commitUncle calls on an environment, the calls
\* of prepareWork over the local and the remote pool included, its uncle set
\* has at most 2 entries, no two with the same hash, and every entry u has
\* u.parent in ancestors, u.parent different from header.parent and u.hash
\* not in family.
C9_UncleSet == AdmissibleUncles(work)

(***************************************************************************)
(* The snapshot and the calls of GeneratePendingHeader.                    *)
(***************************************************************************)
\* An updateSnapshot call ends in this step: its writer releases snapshotMu.
SnapshotWritten == snapshotMu # NoHolder /\ snapshotMu' = NoHolder

\* C11: whenever an updateSnapshot call ends, whether GeneratePendingHeader or
\* the main loop made it, the snapshot block is the block that finalizing the
\* current environment produces: it carries the finalized header, with the
\* state root and the manifest and rollup hashes, not the draft one.
C11_SnapshotIsFinalized ==
    [][SnapshotWritten =>
          \E uncles \in unclelist(envs'[current']) :
              snapshotBlock' = FinalizeAssemble(envs'[current'], uncles)]_vars

\* C12: once close() has been called the main loop eventually observes the
\* exit signal, discards the current environment and returns, so that close()
\* eventually returns, under fair scheduling of every goroutine.
C12_CloseReturns == (closing = "wait") ~> (closing = "returned")

\* The GeneratePendingHeader call of t is made, or tests the coinbase, in
\* this step.
Called(t) == tasks[t].pc \in {"idle", "check"} /\ tasks'[t] # tasks[t]

\* C13: a GeneratePendingHeader call that finds the coinbase to be the zero
\* address fails with the etherbase-not-found error, has built no
\* environment, and up to there the call leaves the current environment and
\* the snapshot (block, receipts and state) as they were.
C13_NoEtherbase ==
    [][\A t \in Tasks :
          Called(t) =>
              /\ (tasks[t].pc = "check" /\ coinbase = ZeroAddr) =>
                      /\ tasks'[t].pc = "idle"
                      /\ tasks'[t].err = "etherbase not found"
                      /\ tasks'[t].ret = NoHeader
                      /\ tasks'[t].work = NoEnv /\ tasks'[t].env = NoEnv
              /\ tasks'[t].work = NoEnv /\ tasks'[t].env = NoEnv
              /\ \A o \in Tasks \ {t} : tasks'[o] = tasks[o]
              /\ UNCHANGED <<envs, current, snapshotBlock, snapshotReceipts,
                             snapshotState>>]_vars

\* A call has failed for want of an etherbase while the worker had a current
\* environment and a snapshot.
C13_Witness ==
    /\ \E t \in Tasks : tasks[t].err = "etherbase not found"
    /\ current # NoCurrent
    /\ snapshotState # NoState
    /\ coinbase = ZeroAddr

\* C14: a GeneratePendingHeader call that succeeds returns the finalized
\* header of the block it assembled in that very call, whatever main-loop
\* events and other calls run beside it.
C14_ReturnsOwnHeader ==
    \A t \in Tasks :
        (tasks[t].pc = "idle" /\ tasks[t].ret # NoHeader) =>
            tasks[t].ret = BlockHeader(tasks[t].built)

\* C15: in a zone every pending() and pendingBlockAndReceipts() call is
\* handed a block, receipts and a state that one and the same updateSnapshot
\* call wrote, and a reader that writes to the state it was handed changes
\* neither the stored snapshot state nor the state of the current environment.
C15_ReadersSeeOneSnapshot ==
    /\ [](reader.block = reader.receipts /\ reader.receipts = reader.state)
    /\ [][(reader.mutated' /\ ~reader.mutated) =>
             /\ UNCHANGED <<snapshotState, envs, tasks>>
             /\ reader'.handle.val = Written(reader.handle.val)]_vars

\* A reader was handed the snapshot of the second updateSnapshot call or a
\* later one, wrote to the state, and the stored state still is what the
\* writer of the snapshot left.
C15_Witness ==
    /\ reader.op = "pending"
    /\ reader.state >= 2
    /\ reader.mutated
    /\ snapshotState # NoState
    /\ reader.handle.val = Written(snapshotState)

(***************************************************************************)
(* fillTransactions and the loop of commitTransactions.                    *)
(***************************************************************************)
\* The iterators of the fill under way: the one of the running pass and the
\* ones of the passes to come.
FillIterators == <<call.input>> \o passes

\* C16: among the transactions one fillTransactions call appends to env.txs
\* every transaction of a local sender precedes every transaction of a remote
\* sender, and the local and the remote partition share no sender.
C16_LocalsFirst ==
    call.caller = "fill" =>
        /\ \A i, j \in 1..Len(env.txs) :
              (env.txs[i].from \notin call.locals /\ env.txs[j].from \in call.locals)
                  => j < i
        /\ (\E t \in Tasks : tasks[t].pc = "fill") =>
              /\ \A k \in 1..Len(FillIterators) :
                    \/ Heads(FillIterators[k]) \subseteq call.locals
                    \/ Heads(FillIterators[k]) \cap call.locals = {}
              /\ \A k, l \in 1..Len(FillIterators) :
                    k # l => Heads(FillIterators[k]) \cap Heads(FillIterators[l]) = {}

\* A fill has appended a transaction of a local sender and then one of a
\* remote sender.
C16_Witness ==
    /\ call.caller = "fill"
    /\ \E i, j \in 1..Len(env.txs) :
          /\ i < j
          /\ env.txs[i].from \in call.locals
          /\ env.txs[j].from \notin call.locals

\* The iterations of the running call that executed a transaction of s.
RanOf(s) == SelectSeq(call.ran, LAMBDA r : r.tx.from = s)

\* C17: within one commitTransactions call, once a transaction of a sender
\* has failed with GasLimitReached, NonceTooHigh or TxTypeNotSupported no
\* further transaction of that sender is executed (the sender is popped);
\* after NonceTooLow, any other error or success the next transaction of the
\* sender stays eligible (shift); and no error of a transaction ends the loop
\* or makes the call report a failure.
C17_PopOrShift ==
    /\ \A i, j \in 1..Len(call.ran) :
          (i < j /\ call.ran[i].err \in PopErrors)
              => call.ran[j].tx.from # call.ran[i].tx.from
    /\ \A s \in Senders :
          RanOf(s) # << >> =>
              LET last == RanOf(s)[Len(RanOf(s))]
              IN  txs[s] = IF last.err \in PopErrors THEN << >> ELSE last.rest
    /\ (pc = "done" /\ call.polled = commitInterruptNone /\ call.ran # << >>) =>
          /\ env.gasPool < TxGas \/ Peek(txs) = NoTx
          /\ call.ret = FALSE

\* A call has popped a sender that had a further transaction waiting, has
\* shifted past a failed transaction of another sender to the next one, and
\* has ended.
C17_Witness ==
    /\ pc = "done"
    /\ \E i \in 1..Len(call.ran) :
          call.ran[i].err \in PopErrors /\ call.ran[i].rest # << >>
    /\ \E i, j \in 1..Len(call.ran) :
          /\ i < j
          /\ call.ran[i].err \notin PopErrors \cup {"nil"}
          /\ call.ran[j].tx.from = call.ran[i].tx.from

\* The senders of which the running call executed no transaction.
NotReached == { s \in Senders : RanOf(s) = << >> }

\* What a step may do to the gas pool: create it with the gas limit of the
\* header, or leave it with no more gas than it had.
PoolStep ==
    IF env.gasPool = NoGasPool
        THEN env'.gasPool # NoGasPool => env'.gasPool = env'.gasLimit
        ELSE env'.gasPool # NoGasPool /\ env'.gasPool <= env.gasPool

\* C18: the gas pool of an environment is set to the gas limit of the header
\* on first use, never grows and never exceeds the gas limit; the loop
\* executes no transaction in an iteration that begins with less than TxGas
\* gas; and the transactions the loop did not reach stay in the iterator as
\* they were.
C18_GasPool ==
    /\ [](env.gasPool # NoGasPool => env.gasPool <= env.gasLimit)
    /\ [](\A i \in 1..Len(call.ran) : call.ran[i].gas >= TxGas)
    /\ [](call.caller # "none" => \A s \in NotReached : txs[s] = call.input[s])
    /\ [][PoolStep]_vars

\* A loop has ended for want of gas, after it executed a transaction, with a
\* transaction it never reached still in the iterator.
C18_Witness ==
    /\ pc = "done"
    /\ call.ran # << >>
    /\ env.gasPool < TxGas
    /\ \E s \in NotReached : txs[s] # << >>

(***************************************************************************)
(* The new-tx arm of the main loop.                                        *)
(***************************************************************************)
\* The main loop is done with a new-tx event in this step: it is back in its
\* select, from the end of the arm or from its continue.
EventServiced == main.pc \notin {"select", "returned"} /\ main'.pc = "select"

\* C19: every new-tx event the main loop services adds the number of its
\* transactions to newTxs, whether or not the worker is sealing, has a
\* current environment, or has less than TxGas gas left in it.
C19_NewTxsCounted == [][EventServiced => newTxs' = newTxs + main'.len]_vars

\* What the steps of the new-tx arm may do.  The arm changes an environment
\* or the snapshot only after it found the worker not sealing, with a current
\* environment that has TxGas gas or more left; it changes no environment
\* but the current one; and when it is done the snapshot was written in it
\* if and only if the inclusion loop committed a transaction.
EventStep ==
    /\ (main' # main /\ <<envs', snapshotBlock', snapshotReceipts', snapshotState'>>
                          # <<envs, snapshotBlock, snapshotReceipts, snapshotState>>)
          => main.eligible
    /\ main' # main =>
          \A i \in 1..Len(envs) : i # current => envs'[i] = envs[i]
    /\ EventServiced => ((main.env # NoCurrent) <=> (main.committed > 0))

\* C20: a new-tx event changes the current environment and the snapshot only
\* when the worker is not sealing, has a current environment and that
\* environment has at least TxGas gas left; then the snapshot is updated if
\* and only if the inclusion loop committed a transaction; in every other case
\* the current environment and the snapshot stay as they were.
C20_EventFrame == [][EventStep]_vars

(***************************************************************************)
(* The cleaner arm of the main loop.                                       *)
(***************************************************************************)
\* A side block more than 7 blocks behind the chain head.
TooOld(u) == ChainHeight - u.number > 7

\* Side blocks leave a pool in this step.
Sweeps ==
    /\ localUncles' \subseteq localUncles
    /\ remoteUncles' \subseteq remoteUncles
    /\ <<localUncles', remoteUncles'>> # <<localUncles, remoteUncles>>

\* C21: a cleaner tick removes from the local and the remote pool exactly the
\* side blocks that are more than 7 blocks behind the chain head and keeps
\* every other one, the one exactly 7 blocks behind included.
C21_SweepOlderThanSeven ==
    [][Sweeps => /\ localUncles' = { u \in localUncles : ~TooOld(u) }
                 /\ remoteUncles' = { u \in remoteUncles : ~TooOld(u) }]_vars

\* C22: the pools are never changed while another access to them is under
\* way: no step deletes from a pool that a commitUncles loop of prepareWork is
\* iterating.
C22_PoolsExclusive ==
    [][/\ upc = "local" => localUncles' = localUncles
       /\ upc = "remote" => remoteUncles' = remoteUncles]_vars


\* The calls that have built their environment.
Built ==
    { t \in Tasks :
        tasks[t].pc \notin {"idle", "check", "coinbase", "prepare", "makeEnv",
                            "fill"} }

\* The environment of a call: work until it has become w.current, the copy
\* env after that.
BuiltEnv(t) ==
    IF tasks[t].pc \in {"copy", "discard", "assign"} THEN tasks[t].work
                                                     ELSE tasks[t].env

\* C23: whatever setEtherbase does between the steps of a
\* GeneratePendingHeader call, the environment the call builds carries the
\* coinbase the call validated at its start, which is not the zero address,
\* and no environment of the worker has the zero coinbase.
C23_ValidatedCoinbase ==
    /\ \A t \in Built : /\ BuiltEnv(t).coinbase = tasks[t].coinbase
                        /\ BuiltEnv(t).coinbase # ZeroAddr
    /\ \A i \in DOMAIN envs : envs[i].coinbase # ZeroAddr

\* What a prepareWork call with these inputs has to leave behind.
PreparedHeader(timestamp, forceTime, block) ==
    IF forceTime /\ timestamp <= BlockTime(block)
        THEN /\ uncleErr' = "invalid timestamp"
             /\ work' = work
             /\ upc' = "idle"
        ELSE upc' = "local" =>
                /\ work'.parentHash = BlockHash(block)
                /\ work'.number = block + 1
                /\ work'.time > BlockTime(block)
                /\ work'.time = IF timestamp > BlockTime(block)
                                    THEN timestamp ELSE BlockTime(block) + 1

\* C25: the header of a successful prepareWork has the hash of the parent as
\* parent hash, the number of the parent plus one and a time after the
\* parent's: the timestamp asked for if that is after the parent, else the
\* parent's time plus one.  With forceTime and a timestamp not after the
\* parent the call fails with the invalid-timestamp error and builds no
\* environment.
C25_PreparedHeader ==
    [][\A timestamp \in Timestamps, forceTime \in BOOLEAN, block \in Parents,
          gasLimit \in GasLimits :
            prepareWork(timestamp, forceTime, block, gasLimit) =>
                PreparedHeader(timestamp, forceTime, block)]_vars

\* A call moved the timestamp to the parent's time plus one, and a later
\* call with forceTime was refused and left that environment alone.
C25_Witness ==
    /\ uncleErr = "invalid timestamp"
    /\ upc = "idle"
    /\ work # NoEnv
    /\ work.time = BlockTime(work.number - 1) + 1

\* A step of the loop that called commitTransaction, and the record of the
\* call: the transaction and the error.
Committing == pc = "poll" /\ Len(call'.ran) = Len(call.ran) + 1

LastRan == call'.ran[Len(call'.ran)]

\* What commitTransaction leaves behind.
Committed ==
    IF LastRan.err # "nil"
        THEN /\ env'.state = env.state
             /\ env'.txs = env.txs
             /\ env'.receipts = env.receipts
             /\ env'.etxs = env.etxs
             /\ env'.gasUsed = env.gasUsed
             /\ env'.tcount = env.tcount
        ELSE /\ env'.txs = Append(env.txs, LastRan.tx)
             /\ Len(env'.receipts) = Len(env.receipts) + 1
             /\ env'.etxs =
                    IF env'.receipts[Len(env'.receipts)].status = ReceiptStatusSuccessful
                        THEN env.etxs \o LastRan.tx.etxs
                        ELSE env.etxs

\* C27: on an error of ApplyTransaction commitTransaction puts the state back
\* to the snapshot and leaves txs, receipts, etxs, the header's gasUsed and
\* tcount as they were; on success it appends one transaction and one
\* receipt, and the etxs of the receipt only if its status is successful.
C27_RevertOrAppend == [][Committing => Committed]_vars

\* The loop has run a transaction that failed after its gas was bought and
\* has committed a transaction whose receipt has failed and carries etxs.
C27_Witness ==
    /\ \E i \in DOMAIN call.ran : call.ran[i].err = "ErrIntrinsicGas"
    /\ \E i \in DOMAIN env.receipts :
            /\ env.receipts[i].status = ReceiptStatusFailed
            /\ env.receipts[i].etxs # << >>

\* What FinalizeAssembleAndBroadcast is handed of an environment: header,
\* state, txs, unclelist(), etxs, subManifest and receipts.
Inputs(e) ==
    [header |-> [parentHash |-> e.parentHash, number |-> e.number,
                 time |-> e.time, gasLimit |-> e.gasLimit, gasUsed |-> e.gasUsed,
                 root |-> e.root, manifestHash |-> e.manifestHash,
                 etxRollupHash |-> e.etxRollupHash],
     state |-> e.state, txs |-> e.txs,
     uncles |-> { e.uncles[h] : h \in DOMAIN e.uncles },
     etxs |-> e.etxs, subManifest |-> e.subManifest, receipts |-> e.receipts]

\* The environment prepareWork and fillTransactions leave in the node context
\* nodeCtx when a zone leaves e.
Prepared(nodeCtx, e) == IF nodeCtx = ZONE_CTX THEN e ELSE HeaderEnv(e)

\* The step env := work.copy() of the call t, and a step that leaves the call
\* between the copy and the finalization.
Copies(t) == tasks[t].pc = "copy" /\ tasks'[t].pc \in {"discard", "assign"}

Holds(t) ==
    /\ tasks[t].pc \in {"discard", "assign", "finalize"}
    /\ tasks'[t].pc \in {"discard", "assign", "finalize"}

\* C28: the copy GeneratePendingHeader finalizes agrees with the prepared and
\* filled environment on header, state, txs, uncles, etxs, subManifest and
\* receipts when it is made, in a zone, a region and prime, and what the main
\* loop writes to the original afterwards does not change the copy.
C28_CopyAgrees ==
    /\ [][\A t \in Tasks :
            /\ Copies(t) => (Inputs(tasks'[t].env) = Inputs(tasks[t].work))
            /\ Holds(t) => (tasks'[t].env = tasks[t].env)]_vars
    /\ [](\A i \in DOMAIN envs : \A nodeCtx \in NodeContexts :
            Inputs(copyAt(nodeCtx, Prepared(nodeCtx, envs[i])))
                = Inputs(Prepared(nodeCtx, envs[i])))

\* A call holds the copy of a filled environment, which is current, and the
\* main loop has added a transaction to the original since.
C28_Witness ==
    \E t \in Tasks :
        /\ tasks[t].pc = "finalize"
        /\ tasks[t].of = current
        /\ tasks[t].env.receipts # << >>
        /\ Len(envs[current].txs) > Len(tasks[t].env.txs)

\* No environment of the worker is left with its prefetcher running.
AllDiscarded == \A i \in DOMAIN envs : envs[i].discarded

\* Every environment that was replaced as w.current has been discarded, and
\* a call that reaches its return statement has discarded its copy.
Replaced ==
    /\ \A i \in DOMAIN envs : i # current => envs[i].discarded
    /\ \A t \in Tasks : tasks[t].pc = "return" => tasks[t].env.discarded

\* C24: whatever the interleaving of GeneratePendingHeader calls and close(),
\* every environment made by makeEnv or copy() that is not w.current has been
\* discarded, and once the worker is shut down every environment is
\* discarded in the end.
C24_Discarded == []Replaced /\ (exitCh ~> AllDiscarded)

====
